---------------------------- MODULE Spec2Model ----------------------------
(***************************************************************************)
(* A model of the IKEA store lookup proxy (src/server.js): the in-memory   *)
(* TTL cache, the five cache-first fetch functions, the quantity resolver  *)
(* extractQtyFromText and the merge pipeline lookupMerged.                 *)
(*                                                                         *)
(* JavaScript strings are sequences of one-character strings.  JavaScript  *)
(* null and undefined are both the leaf Undef / the document NullDoc: the  *)
(* code only ever tests them with ??, ?. and truthiness, which do not tell *)
(* them apart.                                                             *)
(***************************************************************************)
EXTENDS Integers, Sequences, FiniteSets, TLC

VARIABLES
    cache,      \* the Map `cache`, in insertion order: <<[key, expires, value]>>
    now,        \* Date.now()
    requests,   \* per URL: upstream HTTP requests issued so far
    slots,      \* fetch harness: the fetch calls made directly
    nCalls,     \* fetch harness: number of fetch calls made
    nTicks,     \* number of clock advances
    lk,         \* the lookupMerged calls made so far
    nLookups,   \* number of lookupMerged calls started
    hist,       \* cache harness: the keys each cacheSet removed, in order
    nextKey,    \* cache harness: next fresh key
    qtyIn,      \* quantity harness: the text given to extractQtyFromText
    qtyOut,     \* quantity harness: what it returned
    mIn,        \* merge harness: the four settled fetch results
    mOut,       \* merge harness: what the merge made of them
    http,       \* the HTTP requests the server's routes have received
    stalled,    \* the fetches in flight whose answer will never be complete
    upstream,   \* per URL: the responses the upstream gives, where it is fixed
    storeHoursCache, \* the Map `storeHoursCache`, in insertion order
    lastGet,    \* cache harness: the last cacheGet, its key and its result
    late        \* the fetches that settled after their lookup had completed

vars == <<cache, now, requests, slots, nCalls, nTicks, lk, nLookups,
          hist, nextKey, qtyIn, qtyOut, mIn, mOut, http, stalled,
          upstream, storeHoursCache, lastGet, late>>

----------------------------------------------------------------------------
(* Bounds of the model *)

MaxTicks == 3
MaxCalls == 2
MaxLookups == 2
LongBodyLen == 450

----------------------------------------------------------------------------
(* Program constants *)

CACHE_TTL_MS == 60000
CacheMax == 500
ExcerptMax == 400
TextExcerptMax == 200
STORE_HOURS_TTL_MS == 21600000
StoreHoursMax == 200

----------------------------------------------------------------------------
(* JavaScript strings *)

Min(a, b) == IF a < b THEN a ELSE b

\* s.slice(0, n)
Slice0(s, n) == SubSeq(s, 1, Min(n, Len(s)))

\* whether sub occurs in s at (1-based) position i
MatchAt(s, i, sub) ==
    /\ i >= 1
    /\ i + Len(sub) - 1 <= Len(s)
    /\ \A k \in 1..Len(sub) : s[i + k - 1] = sub[k]

\* s.includes(sub)
Includes(s, sub) == \E i \in 1..(Len(s) + 1) : MatchAt(s, i, sub)

LowerChars == <<"a","b","c","d","e","f","g","h","i","j","k","l","m",
                "n","o","p","q","r","s","t","u","v","w","x","y","z">>
UpperChars == <<"A","B","C","D","E","F","G","H","I","J","K","L","M",
                "N","O","P","Q","R","S","T","U","V","W","X","Y","Z">>

UpperChar(c) ==
    IF \E i \in 1..26 : LowerChars[i] = c
    THEN UpperChars[CHOOSE i \in 1..26 : LowerChars[i] = c]
    ELSE c

LowerChar(c) ==
    IF \E i \in 1..26 : UpperChars[i] = c
    THEN LowerChars[CHOOSE i \in 1..26 : UpperChars[i] = c]
    ELSE c

\* s.toUpperCase(), s.toLowerCase()
ToUpperCase(s) == [i \in 1..Len(s) |-> UpperChar(s[i])]
ToLowerCase(s) == [i \in 1..Len(s) |-> LowerChar(s[i])]

Digits == <<"0","1","2","3","4","5","6","7","8","9">>
IsDigit(c) == \E i \in 1..10 : Digits[i] = c
DigitVal(c) == (CHOOSE i \in 1..10 : Digits[i] = c) - 1

\* String(n) of a non-negative integer
RECURSIVE NatToChars(_)
NatToChars(n) ==
    IF n < 10 THEN <<Digits[n + 1]>>
    ELSE Append(NatToChars(n \div 10), Digits[(n % 10) + 1])

IntToChars(n) == IF n < 0 THEN <<"-">> \o NatToChars(0 - n) ELSE NatToChars(n)

----------------------------------------------------------------------------
(* JSON leaves: the value found at the end of a property path.             *)
(* t = "null": null or undefined; "int": the integer n; "frac": the number *)
(* n + 1/2; "str": the string s.                                           *)

Undef == [t |-> "null", n |-> 0, s |-> <<>>]
Num(n) == [t |-> "int", n |-> n, s |-> <<>>]
Frac(n) == [t |-> "frac", n |-> n, s |-> <<>>]
Str(s) == [t |-> "str", n |-> 0, s |-> s]

\* a ?? b
Coalesce(a, b) == IF a.t = "null" THEN b ELSE a

\* truthiness of a leaf: null, 0 and "" are falsy
LeafTruthy(v) ==
    CASE v.t = "null" -> FALSE
      [] v.t = "int" -> v.n # 0
      [] v.t = "frac" -> TRUE
      [] OTHER -> v.s # <<>>

\* String(v) of a leaf
StringOf(v) ==
    CASE v.t = "null" -> <<"n","u","l","l">>
      [] v.t = "int" -> IntToChars(v.n)
      [] v.t = "frac" -> IntToChars(v.n) \o <<".","5">>
      [] OTHER -> v.s

----------------------------------------------------------------------------
(* Decoded JSON documents (and HTML texts): what a response body decodes   *)
(* to and what the cache stores.  t is the JavaScript type of the value,   *)
(* s the value when it is a string, j its JSON.stringify text, f the       *)
(* leaves at the property paths it has (an object or array only).          *)

NoProps == ("type" :> Undef)

NullDoc == [t |-> "null", s |-> <<>>, j |-> <<"n","u","l","l">>, f |-> NoProps]
ZeroDoc == [t |-> "zero", s |-> <<>>, j |-> <<"0">>, f |-> NoProps]
EmptyStrDoc == [t |-> "string", s |-> <<>>, j |-> <<"\"","\"">>, f |-> NoProps]
StrDoc(s) == [t |-> "string", s |-> s, j |-> <<"\"">> \o s \o <<"\"">>, f |-> NoProps]
ObjDoc(j, f) == [t |-> "object", s |-> <<>>, j |-> j, f |-> f]
ArrDoc(j, f) == [t |-> "array", s |-> <<>>, j |-> j, f |-> f]

\* if (doc) ...
Truthy(doc) ==
    CASE doc.t \in {"null", "zero", "false"} -> FALSE
      [] doc.t = "string" -> doc.s # <<>>
      [] OTHER -> TRUE

\* doc?.a?.b?.c, the path written as in the source
Pick(doc, path) ==
    IF doc.t \in {"object", "array"} /\ path \in DOMAIN doc.f
    THEN doc.f[path]
    ELSE Undef

----------------------------------------------------------------------------
(* The TTL cache *)

KeyIndex(c, key) ==
    IF \E i \in 1..Len(c) : c[i].key = key
    THEN CHOOSE i \in 1..Len(c) : c[i].key = key
    ELSE 0

RemoveAt(c, i) == SubSeq(c, 1, i - 1) \o SubSeq(c, i + 1, Len(c))

\* if (firstKey): a key is a string, the URL with or without a namespace
\* prefix, and is falsy only when it is the empty string
KeyTruthy(key) == key.ns # "" \/ key.url.res # ""

\* a cacheGet that returns what it finds, expired or not
CacheGetNoExpiry(c, key, t) ==
    LET i == KeyIndex(c, key) IN
    IF i = 0 THEN [cache |-> c, value |-> NullDoc]
    ELSE [cache |-> c, value |-> c[i].value]

\* a cacheGet whose hit makes the entry the newest one, as an LRU cache does
CacheGetTouching(c, key, t) ==
    LET i == KeyIndex(c, key) IN
    IF i = 0 THEN [cache |-> c, value |-> NullDoc]
    ELSE IF t > c[i].expires THEN [cache |-> RemoveAt(c, i), value |-> NullDoc]
    ELSE [cache |-> Append(RemoveAt(c, i), c[i]), value |-> c[i].value]

\* cacheGet(key) at time t: the value returned and the cache it leaves
CacheGet(c, key, t) ==
    LET i == KeyIndex(c, key) IN
    IF i = 0 THEN [cache |-> c, value |-> NullDoc]
    ELSE IF t > c[i].expires THEN [cache |-> RemoveAt(c, i), value |-> NullDoc]
    ELSE [cache |-> c, value |-> c[i].value]

\* Map.prototype.set: an existing key keeps its place, a new one goes last
MapSet(c, key, entry) ==
    LET i == KeyIndex(c, key) IN
    IF i = 0 THEN Append(c, entry) ELSE [c EXCEPT ![i] = entry]

\* a cacheSet that makes room by dropping the entry it has just added
CacheSetEvictNewest(c, key, value, ttlMs, t) ==
    LET c1 == MapSet(c, key, [key |-> key, expires |-> t + ttlMs, value |-> value]) IN
    IF Len(c1) > CacheMax THEN SubSeq(c1, 1, Len(c1) - 1) ELSE c1

\* a cacheSet that never makes room
CacheSetUnbounded(c, key, value, ttlMs, t) ==
    MapSet(c, key, [key |-> key, expires |-> t + ttlMs, value |-> value])

\* cacheSet(key, value, ttlMs) at time t
CacheSet(c, key, value, ttlMs, t) ==
    LET c1 == MapSet(c, key, [key |-> key, expires |-> t + ttlMs, value |-> value]) IN
    IF Len(c1) > CacheMax /\ KeyTruthy(c1[1].key) THEN Tail(c1) ELSE c1

\* storeHoursSet(slug, value) at time t; slug 0 is the empty slug, the only
\* falsy one
storeHoursSet(c, slug, value, t) ==
    LET c1 == MapSet(c, slug, [key |-> slug, expires |-> t + STORE_HOURS_TTL_MS,
                               value |-> value])
    IN IF Len(c1) > StoreHoursMax /\ c1[1].key # 0 THEN Tail(c1) ELSE c1

----------------------------------------------------------------------------
(* URLs and upstream responses *)

\* the URL templates of lookupMerged and getStoreHours; a component a
\* template does not use is "-" or 0
UrlProductDetails(article, market, lang) ==
    [res |-> "productDetails", market |-> market, lang |-> lang,
     article |-> article, store |-> 0]
UrlScanShop(article, store, market, lang) ==
    [res |-> "scanShop", market |-> market, lang |-> lang,
     article |-> article, store |-> store]
UrlAvailability(article, store, market, lang) ==
    [res |-> "availability", market |-> market, lang |-> lang,
     article |-> article, store |-> store]
UrlCia(article, market) ==
    [res |-> "cia", market |-> market, lang |-> "-",
     article |-> article, store |-> 0]

\* An upstream outcome.  net: fetch() itself rejected, there is no response.
\* Otherwise status and the Content-Type (ctJson: it names application/json),
\* and the body: readable (the body stream can be read to its end), text (its
\* characters), parses and doc (whether JSON.parse accepts the text, and the
\* value it gives).
Response(status, ctJson, text, parses, doc) ==
    [net |-> FALSE, status |-> status, ctJson |-> ctJson, readable |-> TRUE,
     text |-> text, parses |-> parses, doc |-> doc]
Unreadable(status, ctJson) ==
    [net |-> FALSE, status |-> status, ctJson |-> ctJson, readable |-> FALSE,
     text |-> <<>>, parses |-> FALSE, doc |-> NullDoc]
NetworkError ==
    [net |-> TRUE, status |-> 0, ctJson |-> FALSE, readable |-> FALSE,
     text |-> <<>>, parses |-> FALSE, doc |-> NullDoc]

\* res.ok
ResOk(resp) == resp.status >= 200 /\ resp.status <= 299

----------------------------------------------------------------------------
(* The fetch layer.  A fetch function runs in two steps: the call, up to   *)
(* its first await (the cache lookup, and the request on a miss), and the  *)
(* arrival of the response.  A settled call is                             *)
(*   [st, ok, status, data, text, err]                                     *)
(* st "fulfilled": the strict functions return data; fetchJsonInfo returns *)
(* {ok, status, data, text}.  st "rejected": err is the error thrown.      *)

NoErr == [kind |-> "none", status |-> 0, url |-> UrlCia(0, "-"), excerpt |-> <<>>]
\* new Error(`HTTP ${res.status} from ${url}: ${excerpt}`)
HttpError(status, url, excerpt) ==
    [kind |-> "http", status |-> status, url |-> url, excerpt |-> excerpt]
\* what res.json() / res.text() throws on a 2xx body that cannot be decoded
BodyError == [kind |-> "body", status |-> 0, url |-> UrlCia(0, "-"), excerpt |-> <<>>]
\* what fetch() throws when no response arrives
FetchFailed == [kind |-> "network", status |-> 0, url |-> UrlCia(0, "-"), excerpt |-> <<>>]

Fulfilled(ok, status, data, text) ==
    [st |-> "fulfilled", ok |-> ok, status |-> status, data |-> data,
     text |-> text, err |-> NoErr]
Rejected(err) ==
    [st |-> "rejected", ok |-> FALSE, status |-> 0, data |-> NullDoc,
     text |-> <<>>, err |-> err]
Inflight ==
    [st |-> "inflight", ok |-> FALSE, status |-> 0, data |-> NullDoc,
     text |-> <<>>, err |-> NoErr]
FetchFns == {"fetchJson", "fetchIngkaJson", "fetchJsonInfo", "fetchJsonCia", "fetchText"}

\* a cache key that tells the articles apart and nothing else
CacheKeyByArticle(fn, url) ==
    [ns |-> "", url |-> UrlCia(url.article, url.market)]

\* a cache key that leaves the store out of the URL
CacheKeyIgnoringStore(fn, url) ==
    [ns |-> CASE fn = "fetchIngkaJson" -> "ingka:"
              [] fn = "fetchJsonCia" -> "cia:"
              [] fn = "fetchText" -> "text:"
              [] OTHER -> "",
     url |-> [url EXCEPT !.store = 0]]

\* the cache key each function uses for a URL
CacheKey(fn, url) ==
    [ns |-> CASE fn = "fetchIngkaJson" -> "ingka:"
              [] fn = "fetchJsonCia" -> "cia:"
              [] fn = "fetchText" -> "text:"
              [] OTHER -> "",
     url |-> url]

\* a fetch call in which fetchJsonInfo returns the cached value bare, as the
\* other functions do: the caller finds neither ok nor status on it
FetchCallBareHit(fn, url, c, t) ==
    LET g == CacheGet(c, CacheKey(fn, url), t) IN
    IF Truthy(g.value)
    THEN [cache |-> g.cache, hit |-> TRUE,
          res |-> IF fn = "fetchJsonInfo"
                  THEN Fulfilled(FALSE, 0, g.value, <<>>)
                  ELSE Fulfilled(TRUE, 0, g.value, <<>>)]
    ELSE [cache |-> g.cache, hit |-> FALSE, res |-> Inflight]

\* the call of a fetch function: cacheGet, then return the cached value if it
\* is truthy, else issue the request.  [cache, hit, res]
FetchCall(fn, url, c, t) ==
    LET g == CacheGet(c, CacheKey(fn, url), t) IN
    IF Truthy(g.value)
    THEN [cache |-> g.cache, hit |-> TRUE,
          res |-> IF fn = "fetchJsonInfo"
                  THEN Fulfilled(TRUE, 200, g.value, <<>>)
                  ELSE Fulfilled(TRUE, 0, g.value, <<>>)]
    ELSE [cache |-> g.cache, hit |-> FALSE, res |-> Inflight]

\* a strict fetch whose error message carries the whole body
StrictJsonResponseWholeBody(key, url, resp, c, t) ==
    IF resp.net THEN [cache |-> c, res |-> Rejected(FetchFailed)]
    ELSE IF ~ResOk(resp)
    THEN [cache |-> c, res |-> Rejected(HttpError(resp.status, url, resp.text))]
    ELSE IF ~(resp.readable /\ resp.parses)
    THEN [cache |-> c, res |-> Rejected(BodyError)]
    ELSE [cache |-> CacheSet(c, key, resp.doc, CACHE_TTL_MS, t),
          res |-> Fulfilled(TRUE, 0, resp.doc, <<>>)]

\* fetchJson, fetchIngkaJson, fetchJsonCia after the response: [cache, res]
StrictJsonResponse(key, url, resp, c, t) ==
    IF resp.net THEN [cache |-> c, res |-> Rejected(FetchFailed)]
    ELSE IF ~ResOk(resp)
    THEN LET txt == IF resp.readable THEN resp.text ELSE <<>> IN
         [cache |-> c,
          res |-> Rejected(HttpError(resp.status, url, Slice0(txt, ExcerptMax)))]
    ELSE IF ~(resp.readable /\ resp.parses)
    THEN [cache |-> c, res |-> Rejected(BodyError)]
    ELSE [cache |-> CacheSet(c, key, resp.doc, CACHE_TTL_MS, t),
          res |-> Fulfilled(TRUE, 0, resp.doc, <<>>)]

fetchJson(url, resp, c, t) ==
    StrictJsonResponse(CacheKey("fetchJson", url), url, resp, c, t)

fetchIngkaJson(url, resp, c, t) ==
    StrictJsonResponse(CacheKey("fetchIngkaJson", url), url, resp, c, t)

fetchJsonCia(url, resp, c, t) ==
    StrictJsonResponse(CacheKey("fetchJsonCia", url), url, resp, c, t)

\* a fetchText that keeps its pages as long as the store hours are kept
fetchTextLongLived(url, resp, c, t) ==
    IF resp.net THEN [cache |-> c, res |-> Rejected(FetchFailed)]
    ELSE IF ~ResOk(resp)
    THEN LET txt == IF resp.readable THEN resp.text ELSE <<>> IN
         [cache |-> c,
          res |-> Rejected(HttpError(resp.status, url, Slice0(txt, TextExcerptMax)))]
    ELSE IF ~resp.readable
    THEN [cache |-> c, res |-> Rejected(BodyError)]
    ELSE LET html == IF resp.text = <<>> THEN EmptyStrDoc ELSE StrDoc(resp.text) IN
         [cache |-> CacheSet(c, CacheKey("fetchText", url), html, STORE_HOURS_TTL_MS, t),
          res |-> Fulfilled(TRUE, 0, html, <<>>)]

\* fetchText after the response
fetchText(url, resp, c, t) ==
    IF resp.net THEN [cache |-> c, res |-> Rejected(FetchFailed)]
    ELSE IF ~ResOk(resp)
    THEN LET txt == IF resp.readable THEN resp.text ELSE <<>> IN
         [cache |-> c,
          res |-> Rejected(HttpError(resp.status, url, Slice0(txt, TextExcerptMax)))]
    ELSE IF ~resp.readable
    THEN [cache |-> c, res |-> Rejected(BodyError)]
    ELSE LET html == IF resp.text = <<>> THEN EmptyStrDoc ELSE StrDoc(resp.text) IN
         [cache |-> CacheSet(c, CacheKey("fetchText", url), html, CACHE_TTL_MS, t),
          res |-> Fulfilled(TRUE, 0, html, <<>>)]

\* a fetchJsonInfo that stores whatever body it could decode, also that of
\* a non-2xx response
fetchJsonInfoCachingFailures(url, resp, c, t) ==
    IF resp.net THEN [cache |-> c, res |-> Rejected(FetchFailed)]
    ELSE
    LET data == IF resp.readable /\ resp.parses THEN resp.doc ELSE NullDoc
        c1 == IF data # NullDoc
              THEN CacheSet(c, CacheKey("fetchJsonInfo", url), data, CACHE_TTL_MS, t)
              ELSE c
    IN
    IF ResOk(resp)
    THEN [cache |-> c1, res |-> Fulfilled(TRUE, resp.status, data, <<>>)]
    ELSE [cache |-> c1,
          res |-> Fulfilled(FALSE, resp.status, data,
                            IF resp.ctJson \/ ~resp.readable \/ resp.text = <<>>
                            THEN (IF data.t = "string" THEN data.s ELSE data.j)
                            ELSE resp.text)]

\* a fetchJsonInfo that throws on a non-2xx response, as fetchJson does
fetchJsonInfoThrowing(url, resp, c, t) ==
    StrictJsonResponse(CacheKey("fetchJsonInfo", url), url, resp, c, t)

\* fetchJsonInfo after the response
fetchJsonInfo(url, resp, c, t) ==
    IF resp.net THEN [cache |-> c, res |-> Rejected(FetchFailed)]
    ELSE
    LET decoded == resp.readable /\ resp.parses
        \* data: res.json().catch(() => null), or JSON.parse(text) in a try
        data == IF decoded THEN resp.doc ELSE NullDoc
        \* text: null on the JSON branch, res.text().catch(() => "") otherwise
        text0 == IF resp.ctJson \/ ~resp.readable THEN <<>> ELSE resp.text
        \* if (!text) text = typeof data === "string" ? data : JSON.stringify(data)
        text1 == IF text0 # <<>> THEN text0
                 ELSE IF data.t = "string" THEN data.s ELSE data.j
    IN
    IF ResOk(resp)
    THEN [cache |-> IF data # NullDoc
                    THEN CacheSet(c, CacheKey("fetchJsonInfo", url), data, CACHE_TTL_MS, t)
                    ELSE c,
          res |-> Fulfilled(TRUE, resp.status, data, <<>>)]
    ELSE [cache |-> c, res |-> Fulfilled(FALSE, resp.status, data, text1)]

\* the response step of the function named fn
FetchResponse(fn, url, resp, c, t) ==
    CASE fn = "fetchJson" -> fetchJson(url, resp, c, t)
      [] fn = "fetchIngkaJson" -> fetchIngkaJson(url, resp, c, t)
      [] fn = "fetchJsonCia" -> fetchJsonCia(url, resp, c, t)
      [] fn = "fetchText" -> fetchText(url, resp, c, t)
      [] OTHER -> fetchJsonInfo(url, resp, c, t)

----------------------------------------------------------------------------
(* Sample bodies and responses *)

T_StoreClosed == <<"S","T","O","R","E","_","C","L","O","S","E","D">>
T_EndOfDay == <<"E","n","d"," ","o","f"," ","d","a","y">>

J_ObjA == <<"{","\"","a","\"",":","1","}">>
J_Closed == <<"{","\"","t","y","p","e","\"",":","\"","S","T","O","R","E","_","C","L","O","S","E","D","\"","}">>
J_ClosedLower == <<"{","\"","t","y","p","e","\"",":","\"","s","t","o","r","e","_","c","l","o","s","e","d","\"","}">>
J_Unrelated == <<"{","\"","m","e","s","s","a","g","e","\"",":","\"","S","e","r","v","i","c","e"," ","U","n","a","v","a","i","l","a","b","l","e","\"","}">>
J_NotFound == <<"{","\"","e","r","r","o","r","\"",":","\"","n","o","t"," ","f","o","u","n","d","\"","}">>
T_EndOfDayPage == <<"E","n","d"," ","o","f"," ","d","a","y"," ","h","a","n","d","l","i","n","g">>
T_Html == <<"<","h","t","m","l",">","o","k","<","/","h","t","m","l",">">>
T_Long == [i \in 1..LongBodyLen |-> "x"]

DocA == ObjDoc(J_ObjA, NoProps)
DocClosed == ObjDoc(J_Closed, "type" :> Str(T_StoreClosed))
DocClosedLower == ObjDoc(J_ClosedLower, "type" :> Str(ToLowerCase(T_StoreClosed)))
DocUnrelated == ObjDoc(J_Unrelated, "message" :> Str(<<"S","e","r","v","i","c","e">>))
DocNotFound == ObjDoc(J_NotFound, "error" :> Str(<<"n","o","t"," ","f","o","u","n","d">>))

\* responses every resource can give
R_OkObj == Response(200, TRUE, J_ObjA, TRUE, DocA)
R_OkObjMislabelled == Response(201, FALSE, J_ObjA, TRUE, DocA)
R_OkZero == Response(200, TRUE, <<"0">>, TRUE, ZeroDoc)
R_OkNull == Response(200, TRUE, <<"n","u","l","l">>, TRUE, NullDoc)
R_OkHtml == Response(200, FALSE, T_Html, FALSE, NullDoc)
R_OkEmpty == Response(200, FALSE, <<>>, FALSE, NullDoc)
R_OkUnreadable == Unreadable(200, TRUE)
R_NotFound == Response(404, TRUE, J_NotFound, TRUE, DocNotFound)
R_Closed == Response(503, TRUE, J_Closed, TRUE, DocClosed)
R_OkClosed == Response(200, TRUE, J_Closed, TRUE, DocClosed)
R_ClosedLower == Response(503, FALSE, J_ClosedLower, TRUE, DocClosedLower)
R_ClosedText == Response(503, FALSE, T_EndOfDayPage, FALSE, NullDoc)
\* the closed-store page sent as application/json: the body does not parse
R_ClosedTextAsJson == Response(503, TRUE, T_EndOfDayPage, FALSE, NullDoc)
R_Unrelated503 == Response(503, TRUE, J_Unrelated, TRUE, DocUnrelated)
R_Closed500 == Response(500, TRUE, J_Closed, TRUE, DocClosed)
R_Long500 == Response(500, FALSE, T_Long, FALSE, NullDoc)
R_Unreadable503 == Unreadable(503, FALSE)

----------------------------------------------------------------------------
(* The fetch harness: direct calls of the five fetch functions.            *)
(* A call is [fn, url, hit, gotNet, gotStatus, res]: the function and     *)
(* URL, whether the call was served from the cache, the response it got    *)
(* (gotStatus 0: none yet, or none at all) and its result.                 *)

HarnessUrls == {UrlScanShop(1, 1, "au", "en")}

HarnessResponses ==
    {R_OkObj, R_OkObjMislabelled, R_OkZero, R_OkNull, R_OkHtml, R_OkEmpty,
     R_OkUnreadable, R_NotFound, R_Closed, R_Long500, R_Unreadable503,
     NetworkError}

\* the clock advances by half a TTL at a time, so that a read can fall
\* before, exactly at and after an entry's expiry
TickStep == CACHE_TTL_MS \div 2

NoRequests == [u \in HarnessUrls |-> 0]

\* the parts of the state a specification does not use stay as they are here
IdleClock == now = 0 /\ nTicks = 0
IdleCache == cache = <<>> /\ hist = <<>> /\ nextKey = 1
IdleFetch == slots = <<>> /\ nCalls = 0
IdleLookup == lk = <<>> /\ nLookups = 0
IdleQty == qtyIn = Undef /\ qtyOut = <<>>
IdleMerge == mIn = <<>> /\ mOut = <<>>
IdleHttp == http = <<>> /\ stalled = {}
IdleUpstream == upstream = <<>>
IdleReads == storeHoursCache = <<>> /\ lastGet = <<>> /\ late = {}

InitFetch ==
    /\ IdleClock /\ IdleCache /\ IdleFetch /\ IdleLookup /\ IdleQty /\ IdleMerge /\ IdleHttp
    /\ IdleUpstream /\ IdleReads
    /\ requests = NoRequests

\* a fetch function is called, once the call before it has settled; the
\* harness keeps the last two calls
Call(fn, url) ==
    /\ nCalls < MaxCalls
    /\ \A i \in 1..Len(slots) : slots[i].res.st # "inflight"
    /\ LET r == FetchCall(fn, url, cache, now) IN
       /\ cache' = r.cache
       /\ requests' = IF r.hit THEN requests
                      ELSE [requests EXCEPT ![url] = @ + 1]
       /\ slots' = Append(IF slots = <<>> THEN slots ELSE <<slots[Len(slots)]>>,
                     [fn |-> fn, url |-> url, hit |-> r.hit,
                      gotNet |-> FALSE, gotStatus |-> 0,
                      res |-> r.res])
    /\ nCalls' = nCalls + 1
    /\ UNCHANGED <<now, nTicks, lk, nLookups, hist, nextKey, qtyIn, qtyOut, mIn, mOut, http, stalled,
                   upstream, storeHoursCache, lastGet, late>>

\* the upstream answers a call in flight
Respond(i, resp) ==
    /\ slots[i].res.st = "inflight"
    /\ LET r == FetchResponse(slots[i].fn, slots[i].url, resp, cache, now) IN
       /\ cache' = r.cache
       /\ slots' = [slots EXCEPT ![i].res = r.res,
                                 ![i].gotNet = resp.net,
                                 ![i].gotStatus = resp.status]
    /\ UNCHANGED <<now, nTicks, requests, nCalls, lk, nLookups, hist, nextKey,
                   qtyIn, qtyOut, mIn, mOut, http, stalled,
                   upstream, storeHoursCache, lastGet, late>>

\* time passes
Tick ==
    /\ nTicks < MaxTicks
    /\ now' = now + TickStep
    /\ nTicks' = nTicks + 1
    /\ UNCHANGED <<cache, requests, slots, nCalls, lk, nLookups, hist, nextKey,
                   qtyIn, qtyOut, mIn, mOut, http, stalled,
                   upstream, storeHoursCache, lastGet, late>>

FetchCalls == \E fn \in FetchFns, url \in HarnessUrls : Call(fn, url)
FetchResponses == \E i \in 1..Len(slots), resp \in HarnessResponses : Respond(i, resp)

NextFetch == FetchCalls \/ FetchResponses \/ Tick

SpecFetch == InitFetch /\ [][NextFetch]_vars

----------------------------------------------------------------------------
(* Claims about the fetch layer, checked under SpecFetch *)

IsStrictFn(fn) == fn # "fetchJsonInfo"
Is2xx(status) == status >= 200 /\ status <= 299
Settled(call) == call.res.st \in {"fulfilled", "rejected"}

\* the call got a 2xx response and handed its decoded value to cacheSet
StoredItsResult(call) ==
    /\ call.res.st = "fulfilled"
    /\ ~call.hit
    /\ call.fn = "fetchJsonInfo" => (call.res.ok /\ call.res.data # NullDoc)

\* C5: when a fetch function is called for a URL right after a call of the
\* same function for the same URL that stored its result, the second call
\* issues no upstream request if it is made within the TTL of the stored
\* entry (the two calls issue exactly one request), and issues a new request
\* if the TTL has expired.
C5_CacheRoundTrip ==
    [][(nCalls' = nCalls + 1 /\ slots # <<>>) =>
        LET prev == slots[Len(slots)]
            cur == slots'[Len(slots')]
            i == KeyIndex(cache, CacheKey(cur.fn, cur.url))
            withinTtl == i # 0 /\ now <= cache[i].expires
        IN (cur.fn = prev.fn /\ cur.url = prev.url /\ StoredItsResult(prev)) =>
             /\ withinTtl => (cur.hit /\ requests' = requests)
             /\ ~withinTtl =>
                  (~cur.hit /\ requests'[cur.url] = requests[cur.url] + 1)]_vars

\* C6 (as claimed): the promise of fetchJsonInfo never rejects.
C6_NeverRejects ==
    \A i \in 1..Len(slots) :
        slots[i].fn = "fetchJsonInfo" => slots[i].res.st # "rejected"

\* C6 (amended): fetchJsonInfo rejects exactly when fetch() itself rejected
\* (no response arrived); for every response, whatever its status and body,
\* it returns ok = true and the status when the response is 2xx, ok = false
\* and the status otherwise, and a cache hit returns ok = true, status 200.
C6_TolerantOnEveryResponse ==
    \A i \in 1..Len(slots) :
        LET call == slots[i] IN
        (call.fn = "fetchJsonInfo" /\ Settled(call)) =>
            /\ (call.res.st = "rejected") <=> call.gotNet
            /\ call.hit => (call.res.ok /\ call.res.status = 200)
            /\ (~call.hit /\ ~call.gotNet) =>
                 /\ call.res.status = call.gotStatus
                 /\ call.res.ok <=> Is2xx(call.gotStatus)

\* a fetchJsonInfo call answered 503 has returned, with ok = false
C6_Witness ==
    \E i \in 1..Len(slots) :
        /\ slots[i].fn = "fetchJsonInfo"
        /\ slots[i].gotStatus = 503
        /\ slots[i].res.st = "fulfilled"
        /\ ~slots[i].res.ok

\* C7: a strict fetch function (fetchJson, fetchIngkaJson, fetchJsonCia,
\* fetchText) that missed the cache and got a non-2xx response rejects, with
\* an error that carries the URL, the response's status and an excerpt of
\* the body of at most 400 characters; it never returns a value for it.
C7_StrictRejectsNon2xx ==
    \A i \in 1..Len(slots) :
        LET call == slots[i] IN
        (IsStrictFn(call.fn) /\ Settled(call) /\ ~call.hit /\ ~call.gotNet
           /\ ~Is2xx(call.gotStatus)) =>
            /\ call.res.st = "rejected"
            /\ call.res.err.kind = "http"
            /\ call.res.err.status = call.gotStatus
            /\ call.res.err.url = call.url
            /\ Len(call.res.err.excerpt) <= ExcerptMax

\* a strict call was answered 500 with a body longer than 400 characters and
\* has rejected with the excerpt cut to 400
C7_Witness ==
    \E i \in 1..Len(slots) :
        /\ slots[i].fn = "fetchJson"
        /\ slots[i].gotStatus = 500
        /\ slots[i].res.st = "rejected"
        /\ Len(slots[i].res.err.excerpt) = ExcerptMax

----------------------------------------------------------------------------
(* The quantity resolver: parseNumberLike, isLikelyYear and                *)
(* extractQtyFromText, with its regular expressions matched character by   *)
(* character.                                                              *)

IsSpace(c) == c \in {" ", "\t", "\n"}
IsLetter(c) == \E i \in 1..26 : LowerChars[i] = c \/ UpperChars[i] = c
\* \w
IsWordChar(c) == IsLetter(c) \/ IsDigit(c) \/ c = "_"
\* [\d,]
IsNumChar(c) == IsDigit(c) \/ c = ","

\* .replace(/\s+/g, " "): every run of white space becomes one space
RECURSIVE CollapseSpaces(_)
CollapseSpaces(s) ==
    IF s = <<>> THEN <<>>
    ELSE IF IsSpace(Head(s))
    THEN IF Len(s) > 1 /\ IsSpace(s[2])
         THEN CollapseSpaces(Tail(s))
         ELSE <<" ">> \o CollapseSpaces(Tail(s))
    ELSE <<Head(s)>> \o CollapseSpaces(Tail(s))

\* .trim()
RECURSIVE TrimStart(_)
TrimStart(s) ==
    IF s # <<>> /\ IsSpace(Head(s)) THEN TrimStart(Tail(s)) ELSE s

RECURSIVE TrimEnd(_)
TrimEnd(s) ==
    IF s # <<>> /\ IsSpace(s[Len(s)]) THEN TrimEnd(SubSeq(s, 1, Len(s) - 1)) ELSE s

Trim(s) == TrimEnd(TrimStart(s))

\* .replace(/,/g, "")
RECURSIVE RemoveCommas(_)
RemoveCommas(s) ==
    IF s = <<>> THEN <<>>
    ELSE IF Head(s) = "," THEN RemoveCommas(Tail(s))
    ELSE <<Head(s)>> \o RemoveCommas(Tail(s))

\* Number(s) of a string of digits
RECURSIVE DigitsValue(_)
DigitsValue(s) ==
    IF s = <<>> THEN 0
    ELSE 10 * DigitsValue(SubSeq(s, 1, Len(s) - 1)) + DigitVal(s[Len(s)])

\* parseNumberLike(s), for the captures the patterns give: a digit followed
\* by digits and commas, whose Number() is finite
parseNumberLike(s) == DigitsValue(RemoveCommas(s))

\* a year test that lets every number through
isLikelyYearNever(n) == FALSE

isLikelyYear(n) == n >= 2000 /\ n <= 2100

\* the last position of the longest run of [\d,] that starts at i
RECURSIVE RunEnd(_, _)
RunEnd(s, i) ==
    IF i < Len(s) /\ IsNumChar(s[i + 1]) THEN RunEnd(s, i + 1) ELSE i

\* the first position at or after i that holds no white space ([:\s] with
\* colons: no white space and no colon)
RECURSIVE SkipSpaces(_, _, _)
SkipSpaces(s, i, colons) ==
    IF i <= Len(s) /\ (IsSpace(s[i]) \/ (colons /\ s[i] = ":"))
    THEN SkipSpaces(s, i + 1, colons)
    ELSE i

\* \b between positions k and k + 1
WordAt(s, k) == k >= 1 /\ k <= Len(s) /\ IsWordChar(s[k])
BoundaryAfter(s, k) == WordAt(s, k) # WordAt(s, k + 1)

\* (\d[\d,]*) at position i, with nothing required after it: the capture
DigitsAt(s, i) ==
    IF i <= Len(s) /\ IsDigit(s[i]) THEN SubSeq(s, i, RunEnd(s, i)) ELSE <<>>

\* Each pattern at position i of t (l is t in lower case): the capture, or
\* <<>> when the pattern does not match there.
\* /there (?:are|is)\s+(\d[\d,]*)/i
ThereAreAt(t, l, i) ==
    LET a == i + 6
        b == IF MatchAt(l, a, <<"a","r","e">>) THEN a + 3
             ELSE IF MatchAt(l, a, <<"i","s">>) THEN a + 2
             ELSE 0
    IN IF MatchAt(l, i, <<"t","h","e","r","e"," ">>) /\ b # 0
          /\ b <= Len(t) /\ IsSpace(t[b])
       THEN DigitsAt(t, SkipSpaces(t, b, FALSE))
       ELSE <<>>

\* /(\d[\d,]*)\s+(?:in stock|available|left)\b/i
NumberThenWordAt(t, l, i) ==
    IF i <= Len(t) /\ IsDigit(t[i])
    THEN LET e == RunEnd(t, i)
             w == SkipSpaces(t, e + 1, FALSE)
             k == IF MatchAt(l, w, <<"i","n"," ","s","t","o","c","k">>) THEN w + 7
                  ELSE IF MatchAt(l, w, <<"a","v","a","i","l","a","b","l","e">>) THEN w + 8
                  ELSE IF MatchAt(l, w, <<"l","e","f","t">>) THEN w + 3
                  ELSE 0
         IN IF w > e + 1 /\ k # 0 /\ BoundaryAfter(t, k)
            THEN SubSeq(t, i, e)
            ELSE <<>>
    ELSE <<>>

\* /in stock[:\s]+(\d[\d,]*)/i
InStockAt(t, l, i) ==
    LET b == i + 8 IN
    IF MatchAt(l, i, <<"i","n"," ","s","t","o","c","k">>)
       /\ SkipSpaces(t, b, TRUE) > b
    THEN DigitsAt(t, SkipSpaces(t, b, TRUE))
    ELSE <<>>

\* /stock[:\s]+(\d[\d,]*)/i
StockAt(t, l, i) ==
    LET b == i + 5 IN
    IF MatchAt(l, i, <<"s","t","o","c","k">>)
       /\ SkipSpaces(t, b, TRUE) > b
    THEN DigitsAt(t, SkipSpaces(t, b, TRUE))
    ELSE <<>>

PatternAt(p, t, l, i) ==
    CASE p = 1 -> ThereAreAt(t, l, i)
      [] p = 2 -> NumberThenWordAt(t, l, i)
      [] p = 3 -> InStockAt(t, l, i)
      [] OTHER -> StockAt(t, l, i)

\* t.match(re) for the p-th contextual pattern: the capture of the leftmost
\* match, or <<>> when there is none
ContextualMatch(p, t) ==
    LET l == ToLowerCase(t)
        hits == {i \in 1..Len(t) : PatternAt(p, t, l, i) # <<>>}
    IN IF hits = {} THEN <<>>
       ELSE PatternAt(p, t, l, CHOOSE i \in hits : \A j \in hits : i <= j)

\* /\b(\d[\d,]*)\b/ at position i: the last position of the match, or 0
TokenEndAt(t, i) ==
    IF IsDigit(t[i]) /\ BoundaryAfter(t, i - 1)
    THEN LET ends == {e \in i..RunEnd(t, i) : BoundaryAfter(t, e)} IN
         IF ends = {} THEN 0
         ELSE CHOOSE e \in ends : \A x \in ends : x <= e
    ELSE 0

\* t.matchAll(/\b(\d[\d,]*)\b/g) from position i on: the captures, in order
RECURSIVE IntegerTokens(_, _)
IntegerTokens(t, i) ==
    IF i > Len(t) THEN <<>>
    ELSE LET e == TokenEndAt(t, i) IN
         IF e = 0 THEN IntegerTokens(t, i + 1)
         ELSE <<SubSeq(t, i, e)>> \o IntegerTokens(t, e + 1)

\* the numbers of the tokens that are no years
RECURSIVE NonYears(_)
NonYears(toks) ==
    IF toks = <<>> THEN <<>>
    ELSE LET n == parseNumberLike(Head(toks)) IN
         IF isLikelyYear(n) THEN NonYears(Tail(toks))
         ELSE <<n>> \o NonYears(Tail(toks))

\* a loop over the contextual patterns that returns the capture of the
\* first pattern that matches, year or not
RECURSIVE ContextualQtyFirstMatch(_, _)
ContextualQtyFirstMatch(p, t) ==
    IF p > 4 THEN [found |-> FALSE, n |-> 0]
    ELSE LET m == ContextualMatch(p, t) IN
         IF m # <<>> THEN [found |-> TRUE, n |-> parseNumberLike(m)]
         ELSE ContextualQtyFirstMatch(p + 1, t)

\* the loop over the contextual patterns from the p-th on: the first capture
\* that is no year, or "none"
RECURSIVE ContextualQty(_, _)
ContextualQty(p, t) ==
    IF p > 4 THEN [found |-> FALSE, n |-> 0]
    ELSE LET m == ContextualMatch(p, t) IN
         IF m # <<>> /\ ~isLikelyYear(parseNumberLike(m))
         THEN [found |-> TRUE, n |-> parseNumberLike(m)]
         ELSE ContextualQty(p + 1, t)

\* extractQtyFromText(text): text is a string or null; a number or null
extractQtyFromText(text) ==
    IF text.t = "null" \/ text.s = <<>> THEN Undef
    ELSE LET t == Trim(CollapseSpaces(text.s))
             ctx == ContextualQty(1, t)
             nums == NonYears(IntegerTokens(t, 1))
         IN IF ctx.found THEN Num(ctx.n)
            ELSE IF Len(nums) = 1 THEN Num(nums[1])
            ELSE Undef

----------------------------------------------------------------------------
(* The quantity harness: extractQtyFromText applied to texts put together  *)
(* from up to MaxFrags fragments.                                          *)

MaxFrags == 3

Fragments ==
    { <<"T","h","e","r","e"," ","a","r","e"," ">>,
      <<"i","n"," ","s","t","o","c","k">>,
      <<" ","l","e","f","t">>,
      <<"S","t","o","c","k",":"," ">>,
      <<"4","2">>,
      <<" ","2","0","2","6">>,
      <<" ","2","1","0","0">>,
      <<" ","1","9","9","9">>,
      <<"1",",","5">>,
      <<" ","7"," ","l","e","f","t">>,
      <<" ">> }

RECURSIVE Flatten(_)
Flatten(ss) == IF ss = <<>> THEN <<>> ELSE Head(ss) \o Flatten(Tail(ss))

QtyTexts ==
    {Undef} \cup
    {Str(Flatten(fs)) : fs \in UNION {[1..k -> Fragments] : k \in 0..MaxFrags}}

InitQty ==
    /\ IdleClock /\ IdleCache /\ IdleFetch /\ IdleLookup /\ IdleMerge /\ IdleHttp
    /\ IdleUpstream /\ IdleReads
    /\ requests = NoRequests
    /\ qtyIn \in QtyTexts
    /\ qtyOut = <<>>

\* extractQtyFromText is called on the text
Resolve ==
    /\ qtyOut = <<>>
    /\ qtyOut' = <<extractQtyFromText(qtyIn)>>
    /\ UNCHANGED <<cache, now, requests, slots, nCalls, nTicks, lk, nLookups,
                   hist, nextKey, qtyIn, mIn, mOut, http, stalled,
                   upstream, storeHoursCache, lastGet, late>>

NextQty == Resolve

SpecQty == InitQty /\ [][NextQty]_vars

\* the text as extractQtyFromText scans it
Scanned(text) == IF text.t = "null" THEN <<>> ELSE Trim(CollapseSpaces(text.s))

MatchesContextual(text) ==
    \E p \in 1..4 : ContextualMatch(p, Scanned(text)) # <<>>

T_PriceValid == <<"P","r","i","c","e"," ","v","a","l","i","d"," ","u","n","t","i","l"," ","2","0","2","6">>
\* C10: for a text that matches no contextual pattern, extractQtyFromText
\* returns n exactly when the standalone integer tokens of the text, without
\* those in 2000..2100, are the single token n, and null when none or
\* several remain; "Price valid until 2026" gives null and "42" gives 42.
C10_SingleTokenFallback ==
    /\ extractQtyFromText(Str(T_PriceValid)) = Undef
    /\ extractQtyFromText(Str(<<"4","2">>)) = Num(42)
    /\ (qtyOut # <<>> /\ ~MatchesContextual(qtyIn)) =>
          LET toks == IntegerTokens(Scanned(qtyIn), 1)
              kept == {i \in 1..Len(toks) :
                         ~(parseNumberLike(toks[i]) \in 2000..2100)}
          IN IF Cardinality(kept) = 1
             THEN qtyOut[1] = Num(parseNumberLike(toks[CHOOSE i \in kept : TRUE]))
             ELSE qtyOut[1] = Undef

\* a text with a year and one other token, outside every contextual
\* pattern, has been resolved to that token
C10_Witness ==
    /\ qtyOut = <<Num(42)>>
    /\ ~MatchesContextual(qtyIn)
    /\ Len(IntegerTokens(Scanned(qtyIn), 1)) = 2


----------------------------------------------------------------------------
(* lookupMerged: what it makes of the four settled fetches *)

\* stripHtml(input): every <...> is removed
RECURSIVE stripHtml(_)
stripHtml(s) ==
    IF s = <<>> THEN <<>>
    ELSE IF Head(s) = "<" /\ \E k \in 2..Len(s) : s[k] = ">"
    THEN LET k == CHOOSE k \in 2..Len(s) :
                     s[k] = ">" /\ \A x \in 2..(k - 1) : s[x] # ">"
         IN stripHtml(SubSeq(s, k + 1, Len(s)))
    ELSE <<Head(s)>> \o stripHtml(Tail(s))

\* titleCase(s): lower case, then the first character of every word in
\* upper case
titleCase(s) ==
    LET l == ToLowerCase(s) IN
    [i \in 1..Len(l) |->
        IF IsWordChar(l[i]) /\ ~WordAt(l, i - 1) THEN UpperChar(l[i]) ELSE l[i]]

\* .replace(/_/g, " ")
UnderscoresToSpaces(s) == [i \in 1..Len(s) |-> IF s[i] = "_" THEN " " ELSE s[i]]

IsUpper(c) == \E i \in 1..26 : UpperChars[i] = c

\* the length of the run of characters satisfying upper/digit that starts at i
RECURSIVE UpperRun(_, _)
UpperRun(s, i) == IF i <= Len(s) /\ IsUpper(s[i]) THEN 1 + UpperRun(s, i + 1) ELSE 0
RECURSIVE DigitRun(_, _)
DigitRun(s, i) == IF i <= Len(s) /\ IsDigit(s[i]) THEN 1 + DigitRun(s, i + 1) ELSE 0

\* /\b[A-Z]{2,5}\d{2,5}\b/ at position i: the length of the match, or 0
LocationCodeAt(s, i) ==
    LET u == UpperRun(s, i)
        d == DigitRun(s, i + u)
    IN IF ~WordAt(s, i - 1) /\ u >= 2 /\ u <= 5 /\ d >= 2 /\ d <= 5
          /\ ~WordAt(s, i + u + d)
       THEN u + d ELSE 0

\* String(s).match(/\b[A-Z]{2,5}\d{2,5}\b/): the leftmost match, or <<>>
LocationCodeMatch(s) ==
    LET hits == {i \in 1..Len(s) : LocationCodeAt(s, i) # 0} IN
    IF hits = {} THEN <<>>
    ELSE LET i == CHOOSE i \in hits : \A j \in hits : i <= j IN
         SubSeq(s, i, i + LocationCodeAt(s, i) - 1)

\* the first of the leaves that is not null
RECURSIVE FirstOf(_)
FirstOf(leaves) ==
    IF leaves = <<>> THEN Undef
    ELSE Coalesce(Head(leaves), FirstOf(Tail(leaves)))

\* a classifier that never sees a closed store
isStoreClosedNever(respInfo) == FALSE

\* a classifier that takes the markers of any failed response, whatever its
\* status, for a closed store
isStoreClosedAnyStatus(respInfo) ==
    /\ ~respInfo.ok
    /\ \/ /\ respInfo.data.t \in {"object", "array"}
          /\ ToUpperCase(StringOf(Coalesce(Pick(respInfo.data, "type"), Str(<<>>)))) = T_StoreClosed
       \/ Includes(respInfo.text, T_StoreClosed)
       \/ Includes(respInfo.text, T_EndOfDay)

\* isStoreClosedScanShop(respInfo)
isStoreClosedScanShop(respInfo) ==
    IF respInfo.ok THEN FALSE
    ELSE IF respInfo.status # 503 THEN FALSE
    ELSE LET d == respInfo.data
             type == Pick(d, "type")
             typeText == IF LeafTruthy(type) THEN StringOf(type) ELSE <<>>
         IN \/ /\ Truthy(d)
               /\ d.t \in {"object", "array"}
               /\ ToUpperCase(typeText) = T_StoreClosed
            \/ Includes(respInfo.text, T_StoreClosed)
            \/ Includes(respInfo.text, T_EndOfDay)

StoreClosedMessage ==
    <<":","-","("," ","T","h","e"," ","s","t","o","r","e"," ","i","s",
    " ","c","u","r","r","e","n","t","l","y"," ","c","l","o","s","e",
    "d"," ","(","E","n","d"," ","o","f"," ","d","a","y"," ","h","a",
    "n","d","l","i","n","g",")","."," ","I","n","-","s","t","o","r",
    "e"," ","p","r","i","c","e","/","l","o","c","a","t","i","o","n",
    " ","m","a","y"," ","b","e"," ","u","n","a","v","a","i","l","a",
    "b","l","e",".">>

\* summarizeCia(ciaData, {store, article}): the entry of the store and of the
\* retail unit and the in-store display computed from it, each null when the
\* data has no such entry
summarizeCia(ciaData) ==
    [store |-> Pick(ciaData, "availabilities[STO].classUnitKey.classUnitName"),
     ru |-> Pick(ciaData, "availabilities[RU].classUnitKey.classUnitName"),
     inStore |-> Pick(ciaData, "availabilities[STO].buyingOption.cashCarry.availability.probability.thisDay.messageType")]

NoSummary == [store |-> Undef, ru |-> Undef, inStore |-> Undef]

\* fetchIngkaJson(urls.cia).then(...).catch(...): the settled CIA fetch as
\* {ok: true, data} or {ok: false, error}
CiaRes(res) ==
    IF res.st = "fulfilled"
    THEN [ok |-> TRUE, data |-> res.data, error |-> NoErr]
    ELSE [ok |-> FALSE, data |-> NullDoc, error |-> res.err]

\* a merge in which the market-wide value wins over the store's
PreferOnline(scanValue, onlineValue) == FirstOf(<<onlineValue, scanValue>>)

\* scanX ?? onlineX ?? null
PreferScan(scanValue, onlineValue) == FirstOf(<<scanValue, onlineValue>>)

\* a choice of the quantity that does not look at the status
PickQtyIgnoringStatus(statusUpper, avQty, qtyMax) == FirstOf(<<avQty, qtyMax>>)

\* statusUpper.includes("OUT") ? 0 : (avQty ?? qtyMax ?? null)
PickQty(statusUpper, avQty, qtyMax) ==
    IF Includes(statusUpper, <<"O","U","T">>) THEN Num(0)
    ELSE FirstOf(<<avQty, qtyMax>>)

\* a scan document taken from the body of any response, failed or not
ScanDataOfAnyResponse(scanInfo) == scanInfo.data

\* const scan = scanInfo.ok ? scanInfo.data : null
ScanData(scanInfo) == IF scanInfo.ok THEN scanInfo.data ELSE NullDoc

\* the record lookupMerged assembles from the settled fetches
MergedRecord(a, urls, details, scanInfo, avail, ciaRes) ==
    LET scan == ScanData(scanInfo)
        storeClosed == isStoreClosedScanShop(scanInfo)
        onlineTitle == Pick(details, "product.title")
        onlineDesc == FirstOf(<<Pick(details, "product.description"),
                               Pick(details, "product.typeName")>>)
        onlineUrl == Pick(details, "product.productUrl")
        onlineImg == Pick(details, "product.images[0].imageUrl")
        onlineRaw == Pick(details, "product.pricePackage.includingVat.rawPrice")
        onlinePretty == Pick(details, "product.pricePackage.includingVat.sellingPrice")
        storeRaw == Pick(scan, "presentationSection.productCard.product.pricePackage.includingVat.rawPrice")
        storePretty == Pick(scan, "presentationSection.productCard.product.pricePackage.includingVat.sellingPrice")
        scanTitle == Pick(scan, "presentationSection.productCard.product.title")
        scanDesc == FirstOf(<<Pick(scan, "presentationSection.productCard.product.description"),
                             Pick(scan, "presentationSection.productCard.product.typeName")>>)
        scanImg == Pick(scan, "presentationSection.productCard.product.imageUrl")
        division == Pick(scan, "presentationSection.productCard.salesLocation.location.division")
        deptName == FirstOf(<<Pick(scan, "presentationSection.productCard.salesLocation.location.department.names[0].name"),
                             Pick(scan, "presentationSection.productCard.salesLocation.location.department.title")>>)
        deptId == Pick(scan, "presentationSection.productCard.salesLocation.location.department.id")
        itemLocationText ==
            FirstOf(<<Pick(scan, "buyingInstructionSection.salesPlaceList[0].itemLocation"),
                      Pick(scan, "presentationSection.productCard.stockInfo.itemLocation")>>)
        itemLocationTextPlain ==
            IF LeafTruthy(itemLocationText)
            THEN Str(stripHtml(StringOf(itemLocationText))) ELSE Undef
        floorPretty ==
            IF LeafTruthy(division)
            THEN Str(titleCase(UnderscoresToSpaces(StringOf(division)))) ELSE Undef
        codeMatch ==
            LocationCodeMatch(IF LeafTruthy(itemLocationTextPlain)
                              THEN StringOf(itemLocationTextPlain) ELSE <<>>)
        locationCode == IF codeMatch # <<>> THEN Str(codeMatch) ELSE deptId
        qtyMax == Pick(scan, "buyingDecisionSection.quantityPicker.max")
        \* av0 = Array.isArray(avail) ? avail[0] : null
        av0 == IF avail.t = "array" THEN avail ELSE NullDoc
        avDescRaw == FirstOf(<<Pick(av0, "[0].status.description"),
                              Pick(av0, "[0].status.text"),
                              Pick(av0, "[0].availability.status.description"),
                              Pick(av0, "[0].availability.status.text")>>)
        avDesc == IF LeafTruthy(avDescRaw) THEN Str(StringOf(avDescRaw)) ELSE Undef
        avDescPlain == IF LeafTruthy(avDesc) THEN Str(stripHtml(avDesc.s)) ELSE Undef
        avStatusRaw == FirstOf(<<Pick(av0, "[0].status.code"),
                                Pick(av0, "[0].availability.status.code"),
                                Pick(av0, "[0].status.type"),
                                Pick(av0, "[0].availability.status.type")>>)
        scanStatusRaw ==
            FirstOf(<<Pick(scan, "presentationSection.productCard.product.availability[0].status"),
                      Pick(scan, "presentationSection.productCard.product.availability.status"),
                      Pick(scan, "presentationSection.productCard.product.availabilityStatus")>>)
        stockStatus == FirstOf(<<avStatusRaw, scanStatusRaw>>)
        avQty == extractQtyFromText(avDescPlain)
        statusUpper ==
            ToUpperCase(IF LeafTruthy(stockStatus) THEN StringOf(stockStatus) ELSE <<>>)
        qty == PickQty(statusUpper, avQty, qtyMax)
    IN
    [article |-> a.article, market |-> a.market, lang |-> a.lang, store |-> a.store,
     storeClosed |-> storeClosed,
     storeClosedMessage |-> IF storeClosed THEN Str(StoreClosedMessage) ELSE Undef,
     urls |-> urls,
     product |-> [title |-> PreferScan(scanTitle, onlineTitle),
                  description |-> PreferScan(scanDesc, onlineDesc),
                  productUrl |-> onlineUrl,
                  imageUrl |-> PreferScan(scanImg, onlineImg)],
     prices |-> [online |-> [raw |-> onlineRaw, text |-> onlinePretty],
                 store |-> [raw |-> storeRaw, text |-> storePretty]],
     stock |-> [qty |-> qty, status |-> stockStatus,
                description |-> avDesc, descriptionText |-> avDescPlain],
     location |-> [division |-> division, floor |-> floorPretty,
                   department |-> deptName, code |-> locationCode,
                   itemLocationText |-> itemLocationText,
                   itemLocationTextText |-> itemLocationTextPlain],
     cia |-> [ok |-> ciaRes.ok,
              error |-> IF ciaRes.ok THEN NoErr ELSE ciaRes.error,
              url |-> urls.cia,
              summary |-> IF ciaRes.ok THEN summarizeCia(ciaRes.data) ELSE NoSummary,
              hasSummary |-> ciaRes.ok]]

\* the error lookupMerged throws for a scan-shop failure that is no closed
\* store: status, URL and the first 400 characters of the data or the text
ScanError(urls, scanInfo) ==
    LET debug == IF scanInfo.data # NullDoc
                 THEN (IF scanInfo.data.t = "string" THEN scanInfo.data.s
                       ELSE scanInfo.data.j)
                 ELSE scanInfo.text
    IN HttpError(scanInfo.status, urls.scanShop, Slice0(debug, ExcerptMax))

\* a lookupMerged that returns the record whatever the scan outcome
AfterAllSettledLenient(a, urls, details, scanInfo, avail, ciaRes) ==
    [kind |-> "record", err |-> NoErr,
     rec |-> <<MergedRecord(a, urls, details, scanInfo, avail, ciaRes)>>]

\* lookupMerged after Promise.all has resolved: the record, or the scan error
AfterAllSettled(a, urls, details, scanInfo, avail, ciaRes) ==
    IF ~scanInfo.ok /\ ~isStoreClosedScanShop(scanInfo)
    THEN [kind |-> "error", err |-> ScanError(urls, scanInfo), rec |-> <<>>]
    ELSE [kind |-> "record", err |-> NoErr,
          rec |-> <<MergedRecord(a, urls, details, scanInfo, avail, ciaRes)>>]

\* const urls = {...}
Urls(a) ==
    [productDetails |-> UrlProductDetails(a.article, a.market, a.lang),
     scanShop |-> UrlScanShop(a.article, a.store, a.market, a.lang),
     availability |-> UrlAvailability(a.article, a.store, a.market, a.lang),
     cia |-> UrlCia(a.article, a.market)]

----------------------------------------------------------------------------
(* Sample payloads of the four resources.  j of a payload document is      *)
(* abridged: the code reads it only from a failed scan response.           *)

J_Details == <<"{","\"","p","r","o","d","u","c","t","\"",":","{","}","}">>
J_Scan == <<"{","\"","p","r","e","s","e","n","t","a","t","i","o","n","S","e","c","t","i","o","n","\"",":","{","}","}">>
J_Avail == <<"[","{","\"","s","t","a","t","u","s","\"",":","{","}","}","]">>
J_Cia == <<"{","\"","a","v","a","i","l","a","b","i","l","i","t","i","e","s","\"",":","[","]","}">>

T_ThereAre145Html == <<"T","h","e","r","e"," ","a","r","e"," ","<","b",">","1","4","5","<","/","b",">"," ","i","n"," ","s","t","o","c","k">>
T_HighInStock == <<"H","I","G","H","_","I","N","_","S","T","O","C","K">>
T_OutOfStock == <<"O","U","T","_","O","F","_","S","T","O","C","K">>
T_MarketHall == <<"M","A","R","K","E","T","_","H","A","L","L">>
T_Aisle == <<"A","i","s","l","e"," ","<","b",">","S","P","S","0","0","7","<","/","b",">">>
T_Perth == <<"P","e","r","t","h">>

DetailsDoc(title, description, typeName, image) ==
    ObjDoc(J_Details,
           "product.title" :> title @@
           "product.description" :> description @@
           "product.typeName" :> typeName @@
           "product.productUrl" :> Str(<<"/","p","/","1">>) @@
           "product.images[0].imageUrl" :> image @@
           "product.pricePackage.includingVat.rawPrice" :> Num(10) @@
           "product.pricePackage.includingVat.sellingPrice" :> Str(<<"$","1","0">>))

ScanDoc(title, description, typeName, image, qtyMax, status) ==
    ObjDoc(J_Scan,
           "presentationSection.productCard.product.title" :> title @@
           "presentationSection.productCard.product.description" :> description @@
           "presentationSection.productCard.product.typeName" :> typeName @@
           "presentationSection.productCard.product.imageUrl" :> image @@
           "presentationSection.productCard.product.pricePackage.includingVat.rawPrice" :> Num(9) @@
           "presentationSection.productCard.product.pricePackage.includingVat.sellingPrice" :> Str(<<"$","9">>) @@
           "presentationSection.productCard.product.availabilityStatus" :> status @@
           "presentationSection.productCard.salesLocation.location.division" :> Str(T_MarketHall) @@
           "presentationSection.productCard.salesLocation.location.department.title" :> Str(<<"B","e","d","s">>) @@
           "presentationSection.productCard.salesLocation.location.department.id" :> Str(<<"1","2">>) @@
           "presentationSection.productCard.stockInfo.itemLocation" :> Str(T_Aisle) @@
           "buyingDecisionSection.quantityPicker.max" :> qtyMax)

AvailDoc(description, code) ==
    ArrDoc(J_Avail,
           "[0].status.description" :> description @@
           "[0].status.code" :> code)

CiaDoc ==
    ObjDoc(J_Cia,
           "availabilities[STO].classUnitKey.classUnitName" :> Str(T_Perth) @@
           "availabilities[STO].buyingOption.cashCarry.availability.probability.thisDay.messageType" :> Str(T_HighInStock))

S_A == Str(<<"A">>)
S_B == Str(<<"B">>)
S_Empty == Str(<<>>)

DetailsDocs ==
    {DetailsDoc(t, d, n, i) :
        t \in {Undef, S_A}, d \in {Undef, S_A}, n \in {Undef, Str(<<"N">>)},
        i \in {Undef, S_A}}

\* scan payloads that differ in the product facts, and in the quantity hints
ScanDocs ==
    {ScanDoc(t, d, n, i, Undef, Undef) :
        t \in {Undef, S_B, S_Empty}, d \in {Undef, S_B}, n \in {Undef, Str(<<"M">>)},
        i \in {Undef, S_B}}
    \cup
    {ScanDoc(S_B, Undef, Undef, Undef, q, st) :
        q \in {Undef, Num(0), Num(5), Num(0 - 1), Frac(2), Str(<<"3">>)},
        st \in {Undef, Str(T_OutOfStock)}}

AvailDocs ==
    {AvailDoc(d, c) :
        d \in {Undef, Str(T_ThereAre145Html), Str(T_PriceValid), Num(7)},
        c \in {Undef, Str(T_HighInStock), Str(T_OutOfStock)}}
    \cup {DocA, ZeroDoc}

\* a closed-store body that also carries a product card
DocClosedWithCard ==
    ObjDoc(J_Closed,
           ("type" :> Str(T_StoreClosed)) @@
           ScanDoc(S_B, Undef, Undef, Undef, Num(5), Undef).f)
R_ClosedWithCard == Response(503, TRUE, J_Closed, TRUE, DocClosedWithCard)

\* what the scan-shop resource answers
ScanResponses ==
    {Response(200, TRUE, d.j, TRUE, d) : d \in ScanDocs}
    \cup {R_OkNull, R_OkHtml, R_OkClosed, R_Closed, R_ClosedLower, R_ClosedText,
          R_ClosedTextAsJson, R_ClosedWithCard,
          R_Unrelated503, R_Closed500, R_NotFound, R_Long500, R_Unreadable503}

----------------------------------------------------------------------------
(* The merge harness: the part of lookupMerged after Promise.all, applied  *)
(* to the results of four settled fetches.                                 *)

MergeArgs == [article |-> 1, store |-> 1, market |-> "au", lang |-> "en"]

\* what fetchJsonInfo returns for each scan response, on an empty cache
ScanInfos ==
    {fetchJsonInfo(Urls(MergeArgs).scanShop, r, <<>>, 0).res : r \in ScanResponses}

CiaResults ==
    {CiaRes(Fulfilled(TRUE, 0, CiaDoc, <<>>)),
     CiaRes(Rejected(HttpError(404, Urls(MergeArgs).cia, J_NotFound))),
     CiaRes(Rejected(FetchFailed))}

InitMerge ==
    /\ IdleClock /\ IdleCache /\ IdleFetch /\ IdleLookup /\ IdleQty /\ IdleHttp
    /\ IdleUpstream /\ IdleReads
    /\ requests = NoRequests
    /\ mIn \in {<<[details |-> d, scanInfo |-> s, avail |-> a, ciaRes |-> c]>> :
                  d \in DetailsDocs, s \in ScanInfos, a \in AvailDocs,
                  c \in CiaResults}
    /\ mOut = <<>>

\* lookupMerged goes on after Promise.all has resolved
Merge ==
    /\ mOut = <<>>
    /\ mOut' = <<AfterAllSettled(MergeArgs, Urls(MergeArgs), mIn[1].details,
                                 mIn[1].scanInfo, mIn[1].avail, mIn[1].ciaRes)>>
    /\ UNCHANGED <<cache, now, requests, slots, nCalls, nTicks, lk, nLookups,
                   hist, nextKey, qtyIn, qtyOut, mIn, http, stalled,
                   upstream, storeHoursCache, lastGet, late>>

NextMerge == Merge

SpecMerge == InitMerge /\ [][NextMerge]_vars

Returned == mOut # <<>> /\ mOut[1].kind = "record"
Rec == mOut[1].rec[1]

\* C4: in every record lookupMerged returns, stock.qty is null or a
\* non-negative integer.
C4_QtyNullOrNonNegativeInteger ==
    Returned =>
        \/ Rec.stock.qty.t = "null"
        \/ Rec.stock.qty.t = "int" /\ Rec.stock.qty.n >= 0

\* the fact the scan resource gives, null when the scan data is not there
ScanFact(path) ==
    IF mIn[1].scanInfo.ok THEN Pick(mIn[1].scanInfo.data, path) ELSE Undef
ScanOr(scanValue, onlineValue) ==
    IF scanValue # Undef THEN scanValue ELSE onlineValue

\* C9: title, description (a resource's description, or its typeName when it
\* has no description) and image URL of a returned record are the scan
\* resource's value when that is present and not null, and the
\* product-details value otherwise.
C9_ScanWinsOverDetails ==
    Returned =>
        /\ Rec.product.title =
             ScanOr(ScanFact("presentationSection.productCard.product.title"),
                    Pick(mIn[1].details, "product.title"))
        /\ Rec.product.description =
             ScanOr(ScanOr(ScanFact("presentationSection.productCard.product.description"),
                           ScanFact("presentationSection.productCard.product.typeName")),
                    ScanOr(Pick(mIn[1].details, "product.description"),
                           Pick(mIn[1].details, "product.typeName")))
        /\ Rec.product.imageUrl =
             ScanOr(ScanFact("presentationSection.productCard.product.imageUrl"),
                    Pick(mIn[1].details, "product.images[0].imageUrl"))

\* product-details says title A, the scan says title B, and the record says B
C9_Witness ==
    /\ Returned
    /\ Pick(mIn[1].details, "product.title") = S_A
    /\ ScanFact("presentationSection.productCard.product.title") = S_B
    /\ Rec.product.title = S_B

----------------------------------------------------------------------------
(* lookupMerged as a process.  A lookup is                                 *)
(*   [args, f, st, out]                                                    *)
(* f gives, for each of its four fetches, [hit, got, res]: whether the     *)
(* call was served from the cache, the response that arrived (at most      *)
(* one, as [net, status, text]) and the state of the call.  st is "running", "returned" or         *)
(* "failed", and out is what the caller of lookupMerged gets.              *)

FetchNames == {"details", "scan", "avail", "cia"}
StrictNames == {"details", "scan", "avail"}

\* the fetch function lookupMerged uses for each resource
FnOf(name) ==
    CASE name = "scan" -> "fetchJsonInfo"
      [] name = "cia" -> "fetchIngkaJson"
      [] OTHER -> "fetchJson"

UrlOf(a, name) ==
    CASE name = "details" -> Urls(a).productDetails
      [] name = "scan" -> Urls(a).scanShop
      [] name = "avail" -> Urls(a).availability
      [] OTHER -> Urls(a).cia

LookupKeys ==
    {[article |-> 1, store |-> s, market |-> "au", lang |-> "en"] : s \in {1}}

LookupUrls == {UrlOf(a, name) : a \in LookupKeys, name \in FetchNames}

D_Product == DetailsDoc(S_A, S_A, Undef, Undef)
S_Product == ScanDoc(S_B, Undef, Undef, S_B, Num(5), Undef)
A_Stock == AvailDoc(Str(<<"5"," ","l","e","f","t">>), Str(T_HighInStock))

R_Details == Response(200, TRUE, D_Product.j, TRUE, D_Product)
R_Scan == Response(200, TRUE, S_Product.j, TRUE, S_Product)
R_Avail == Response(200, TRUE, A_Stock.j, TRUE, A_Stock)
R_Cia == Response(200, TRUE, CiaDoc.j, TRUE, CiaDoc)

\* what each resource can answer
ResponsesOf(name) ==
    CASE name = "details" -> {R_Details, R_NotFound}
      [] name = "scan" -> {R_Scan, R_Closed, R_Unrelated503, R_NotFound, NetworkError}
      [] name = "avail" -> {R_Avail, R_Closed500}
      [] OTHER -> {R_Cia, R_NotFound}

\* what is kept of a response that arrived: whether there was one, its
\* status and the text of its body
Got(resp) == [net |-> resp.net, status |-> resp.status, text |-> resp.text]

NoOut == [kind |-> "none", err |-> NoErr, rec |-> <<>>]

AllSettled(f) == \A name \in FetchNames : f[name].res.st # "inflight"

\* a Promise.all that waits for every fetch and takes a rejected strict
\* fetch for a null document
PromiseAllLenient(a, f, st, out, name) ==
    IF st # "running" \/ ~AllSettled(f) THEN [st |-> st, out |-> out]
    ELSE [st |-> "returned",
          out |-> AfterAllSettledLenient(a, Urls(a), f["details"].res.data,
                      f["scan"].res, f["avail"].res.data, CiaRes(f["cia"].res))]

\* a lookupMerged that does not wait for the CIA fetch: it goes on as soon
\* as the other three have settled
PromiseAllNotAwaitingCia(a, f, st, out, name) ==
    IF st # "running" THEN [st |-> st, out |-> out]
    ELSE IF name \in StrictNames /\ f[name].res.st = "rejected"
    THEN [st |-> "failed",
          out |-> [kind |-> "error", err |-> f[name].res.err, rec |-> <<>>]]
    ELSE IF \A n \in StrictNames : f[n].res.st # "inflight"
    THEN LET r == AfterAllSettled(a, Urls(a), f["details"].res.data,
                      f["scan"].res, f["avail"].res.data, CiaRes(f["cia"].res))
         IN [st |-> IF r.kind = "record" THEN "returned" ELSE "failed", out |-> r]
    ELSE [st |-> st, out |-> out]

\* await Promise.all([...]) and the rest of lookupMerged, after the fetch
\* called name has settled: the first rejection among the product-details,
\* scan and availability fetches fails the lookup at once, with its error;
\* a rejection of the CIA fetch is caught; when all four have settled the
\* lookup goes on to build its result
PromiseAll(a, f, st, out, name) ==
    IF st # "running" THEN [st |-> st, out |-> out]
    ELSE IF name \in StrictNames /\ f[name].res.st = "rejected"
    THEN [st |-> "failed",
          out |-> [kind |-> "error", err |-> f[name].res.err, rec |-> <<>>]]
    ELSE IF AllSettled(f)
    THEN LET r == AfterAllSettled(a, Urls(a), f["details"].res.data,
                      f["scan"].res, f["avail"].res.data, CiaRes(f["cia"].res))
         IN [st |-> IF r.kind = "record" THEN "returned" ELSE "failed", out |-> r]
    ELSE [st |-> st, out |-> out]

\* the state of a fetch that has just been called
Slot(call) == [hit |-> call.hit, got |-> <<>>, res |-> call.res]

Init ==
    /\ IdleClock /\ IdleCache /\ IdleFetch /\ IdleLookup /\ IdleQty /\ IdleMerge /\ IdleHttp
    /\ IdleUpstream /\ IdleReads
    /\ requests = [u \in LookupUrls |-> 0]

\* lookupMerged is called, once the fetches of the lookups before it have
\* settled: what a lookup gets depends on the other lookups only through the
\* cache entries it finds when it starts, and the lookups before it leave
\* every combination of them.  The four fetch functions are called one
\* after the other, each running up to its own first await.
StartLookup(a) ==
    /\ nLookups < MaxLookups
    /\ \A i \in 1..Len(lk) : AllSettled(lk[i].f)
    /\ \E d \in {FetchCall(FnOf("details"), UrlOf(a, "details"), cache, now)} :
       \E s \in {FetchCall(FnOf("scan"), UrlOf(a, "scan"), d.cache, now)} :
       \E v \in {FetchCall(FnOf("avail"), UrlOf(a, "avail"), s.cache, now)} :
       \E c \in {FetchCall(FnOf("cia"), UrlOf(a, "cia"), v.cache, now)} :
       \E f \in {"details" :> Slot(d) @@ "scan" :> Slot(s) @@
                  "avail" :> Slot(v) @@ "cia" :> Slot(c)} :
       \E p \in {PromiseAll(a, f, "running", NoOut, "cia")} :
          /\ cache' = c.cache
          /\ requests' = [u \in LookupUrls |->
                            requests[u] +
                            Cardinality({name \in FetchNames :
                                UrlOf(a, name) = u /\ ~f[name].hit})]
          /\ lk' = Append(lk, [args |-> a, f |-> f, st |-> p.st, out |-> p.out])
    /\ nLookups' = nLookups + 1
    /\ UNCHANGED <<now, nTicks, slots, nCalls, hist, nextKey, qtyIn, qtyOut, mIn, mOut, http, stalled,
                   upstream, storeHoursCache, lastGet, late>>

\* the upstream answers one of the fetches of lookup i
RespondLookup(i, name, resp) ==
    /\ lk[i].f[name].res.st = "inflight"
    /\ \E r \in {FetchResponse(FnOf(name), UrlOf(lk[i].args, name), resp, cache, now)} :
       \E f \in {[lk[i].f EXCEPT ![name].res = r.res, ![name].got = <<Got(resp)>>]} :
       \E p \in {PromiseAll(lk[i].args, f, lk[i].st, lk[i].out, name)} :
          /\ cache' = r.cache
          /\ lk' = [lk EXCEPT ![i] = [args |-> lk[i].args, f |-> f,
                                      st |-> p.st, out |-> p.out]]
    /\ UNCHANGED <<now, nTicks, requests, slots, nCalls, nLookups, hist, nextKey,
                   qtyIn, qtyOut, mIn, mOut, http, stalled,
                   upstream, storeHoursCache, lastGet, late>>

Lookups == \E a \in LookupKeys : StartLookup(a)
LookupResponses ==
    \E i \in 1..Len(lk), name \in FetchNames :
        \E resp \in ResponsesOf(name) : RespondLookup(i, name, resp)

Next == Lookups \/ LookupResponses \/ Tick

Spec == Init /\ [][Next]_vars

----------------------------------------------------------------------------
(* Claims about lookupMerged, checked under Spec *)

GotResponse(slot) == slot.got # <<>> /\ ~slot.got[1].net
GotNon2xx(slot) == GotResponse(slot) /\ ~Is2xx(slot.got[1].status)
IsFulfilled(slot) == slot.res.st = "fulfilled"
IsRejected(slot) == slot.res.st = "rejected"

\* the scan responses that tell of a closed store
ClosedScanGots == {Got(R_Closed), Got(R_ClosedLower), Got(R_ClosedText)}

\* C1: a lookup whose product-details and availability fetches succeeded and
\* whose scan fetch was answered 503 with the body {"type":"STORE_CLOSED"}
\* never fails, and once its CIA fetch has settled, fulfilled or rejected,
\* it has returned a record with storeClosed = true.
C1_StoreClosedReturnsRecord ==
    \A i \in 1..Len(lk) :
        LET l == lk[i] IN
        (/\ l.f["scan"].got = <<Got(R_Closed)>>
         /\ IsFulfilled(l.f["details"])
         /\ IsFulfilled(l.f["avail"])) =>
            /\ l.st # "failed"
            /\ AllSettled(l.f) =>
                 /\ l.st = "returned"
                 /\ l.out.kind = "record"
                 /\ l.out.rec[1].storeClosed

\* the store is closed and the CIA fetch failed: the record is there, with
\* storeClosed = true
C1_Witness ==
    \E i \in 1..Len(lk) :
        /\ lk[i].f["scan"].got = <<Got(R_Closed)>>
        /\ IsRejected(lk[i].f["cia"])
        /\ lk[i].st = "returned"
        /\ lk[i].out.rec[1].storeClosed

\* C2: a lookup whose scan fetch was answered non-2xx with a response that
\* does not tell of a closed store never returns a record; once its fetches
\* have settled it has failed, and when its product-details and
\* availability fetches succeeded (whatever the CIA fetch did) the error is
\* the one for the scan URL with the status of the scan response.
C2_FatalScanFailsLookup ==
    \A i \in 1..Len(lk) :
        LET l == lk[i]
            scan == l.f["scan"]
        IN (GotNon2xx(scan) /\ scan.got[1] \notin ClosedScanGots) =>
            /\ l.st # "returned"
            /\ l.out.rec = <<>>
            /\ AllSettled(l.f) =>
                 /\ l.st = "failed"
                 /\ l.out.kind = "error"
                 /\ (IsFulfilled(l.f["details"]) /\ IsFulfilled(l.f["avail"])) =>
                      /\ l.out.err.kind = "http"
                      /\ l.out.err.status = scan.got[1].status
                      /\ l.out.err.url = UrlOf(l.args, "scan")

\* product details, availability and CIA all succeeded, the scan was answered
\* 503 with an unrelated body, and the lookup failed with an error for 503
C2_Witness ==
    \E i \in 1..Len(lk) :
        /\ lk[i].f["scan"].got = <<Got(R_Unrelated503)>>
        /\ IsFulfilled(lk[i].f["details"])
        /\ IsFulfilled(lk[i].f["avail"])
        /\ IsFulfilled(lk[i].f["cia"])
        /\ lk[i].st = "failed"
        /\ lk[i].out.err.status = 503

\* the product-details and availability fetches of a lookup that were
\* answered non-2xx
FailedStrict(l) == {name \in {"details", "avail"} : GotNon2xx(l.f[name])}

\* the error carries the URL and the status of one of these fetches
CarriesOneOf(l, names) ==
    \E name \in names :
        /\ l.out.err.kind = "http"
        /\ l.out.err.url = UrlOf(l.args, name)
        /\ l.out.err.status = l.f[name].got[1].status

----------------------------------------------------------------------------
(* The cache harness: cacheSet on an empty cache, with one new key after   *)
(* the other, and overwrites of the oldest entry in between.               *)

MaxKeys == 502

\* the k-th key: the URL of article k, as fetchJson uses it
HarnessKey(k) == CacheKey("fetchJson", UrlProductDetails(k, "au", "en"))

KeySet(c) == {c[i].key : i \in 1..Len(c)}

InitCache ==
    /\ IdleClock /\ IdleCache /\ IdleFetch /\ IdleLookup /\ IdleQty /\ IdleMerge /\ IdleHttp
    /\ IdleUpstream /\ IdleReads
    /\ requests = NoRequests

\* what a cacheSet leaves in hist: the set of the keys it removed, if any
Removed(c, c1) ==
    LET gone == KeySet(c) \ KeySet(c1) IN
    IF gone = {} THEN hist ELSE Append(hist, gone)

\* cacheSet with a key that was never used
SetNew ==
    /\ nextKey <= MaxKeys
    /\ cache' = CacheSet(cache, HarnessKey(nextKey), DocA, CACHE_TTL_MS, now)
    /\ hist' = Removed(cache, cache')
    /\ nextKey' = nextKey + 1
    /\ UNCHANGED <<now, nTicks, requests, slots, nCalls, lk, nLookups,
                   qtyIn, qtyOut, mIn, mOut, http, stalled,
                   upstream, storeHoursCache, lastGet, late>>

\* cacheSet with the key of the oldest entry, and another value
SetOldest ==
    /\ cache # <<>>
    /\ cache[1].value = DocA
    /\ cache' = CacheSet(cache, cache[1].key, ZeroDoc, CACHE_TTL_MS, now)
    /\ hist' = Removed(cache, cache')
    /\ UNCHANGED <<now, nTicks, requests, slots, nCalls, lk, nLookups, nextKey,
                   qtyIn, qtyOut, mIn, mOut, http, stalled,
                   upstream, storeHoursCache, lastGet, late>>

NextCache == SetNew \/ SetOldest

SpecCache == InitCache /\ [][NextCache]_vars

\* C8: after cacheSet has been called with the distinct keys 1..n, in this
\* order, and any number of times with keys already there, each of the calls
\* that made the count exceed 500 has removed exactly one entry, the one
\* inserted earliest, and no other call has removed any: the removals are
\* the keys 1..n-500 one at a time in this order, and the cache holds the
\* min(n, 500) keys inserted last, in insertion order.
C8_EvictsEarliestOnly ==
    LET n == nextKey - 1
        gone == IF n > CacheMax THEN n - CacheMax ELSE 0
    IN /\ Len(cache) = n - gone
       /\ \A i \in 1..Len(cache) : cache[i].key = HarnessKey(gone + i)
       /\ hist = [j \in 1..gone |-> {HarnessKey(j)}]

\* 501 distinct keys went into the empty cache: 500 entries are left, and
\* the first key is the only one gone
C8_Witness ==
    /\ nextKey = CacheMax + 2
    /\ Len(cache) = CacheMax
    /\ hist = <<{HarnessKey(1)}>>
    /\ HarnessKey(1) \notin KeySet(cache)
    /\ \A k \in 2..(CacheMax + 1) : HarnessKey(k) \in KeySet(cache)

----------------------------------------------------------------------------
(* The HTTP routes: GET /api/lookup and the changedetection page           *)
(* GET /<store>/<article>.  A request is                                   *)
(*   [route, args, lk, st, cia, reply]                                     *)
(* lk: the index of its lookupMerged call in `lk` (0: none was made);      *)
(* st: "lookup" while lookupMerged runs, "cia" while the handler's own     *)
(* CIA fetch is in flight, "done" once the reply is sent; cia: that fetch; *)
(* reply: what was sent.                                                   *)

MaxRequests == 2
MaxSleeps == 1

\* the character U+2014
Dash == <<"--">>

NoReply ==
    [status |-> 0, kind |-> "none", error |-> NoErr, result |-> <<>>,
     cia |-> <<>>, ciaError |-> NoErr, page |-> <<>>]

\* res.status(400).json({ error: "Missing article. ..." }) and
\* res.status(400).send("Bad Request: missing article number.")
BadRequest == [NoReply EXCEPT !.status = 400, !.kind = "badRequest"]

\* res.status(500).json({ error: e?.message || String(e) })
ServerError(err) == [NoReply EXCEPT !.status = 500, !.kind = "error", !.error = err]

\* res.json(result): result is lookupMerged's record with its cia property
\* replaced by cia (<<>>: null) and, after a failure, ciaError added
JsonResult(rec, cia, ciaError) ==
    [NoReply EXCEPT !.status = 200, !.kind = "json", !.result = <<rec>>,
                    !.cia = cia, !.ciaError = ciaError]

\* the paths of the flattened CIA document that lie in the entry of the
\* selected store
StoreEntryPaths ==
    {"availabilities[STO].classUnitKey.classUnitName",
     "availabilities[STO].buyingOption.cashCarry.availability.probability.thisDay.messageType"}

\* parseCiaForSelectedStore(cia, {itemNo, storeCode}): null (<<>>) when the
\* data has no entry of the store
parseCiaForSelectedStore(cia, a) ==
    IF cia.t = "object" /\ StoreEntryPaths \cap DOMAIN cia.f # {}
    THEN <<[store |-> [id |-> a.store,
                       name |-> Pick(cia, "availabilities[STO].classUnitKey.classUnitName")],
            itemNo |-> a.article,
            cashCarry |-> [status |-> Pick(cia, "availabilities[STO].buyingOption.cashCarry.availability.probability.thisDay.messageType")]]>>
    ELSE <<>>

\* a handler whose CIA failure escapes to the outer catch
ApiAfterCiaThrowing(a, rec, res) ==
    IF res.st = "fulfilled"
    THEN JsonResult(rec, parseCiaForSelectedStore(res.data, a), NoErr)
    ELSE ServerError(res.err)

\* /api/lookup after its CIA fetch has settled: try { result.cia =
\* parseCiaForSelectedStore(await fetchCiaAvailabilities(...)) } catch (e)
\* { result.cia = null; result.ciaError = message }; res.json(result)
ApiAfterCia(a, rec, res) ==
    IF res.st = "fulfilled"
    THEN JsonResult(rec, parseCiaForSelectedStore(res.data, a), NoErr)
    ELSE JsonResult(rec, <<>>, res.err)

\* numberFixed(n, 2): Number(n).toFixed(2), the dash when Number(n) is not
\* finite; Number(null) and Number("") are 0
numberFixed(v) ==
    CASE v.t = "null" -> <<"0",".","0","0">>
      [] v.t = "int" -> IntToChars(v.n) \o <<".","0","0">>
      [] v.t = "frac" -> IntToChars(v.n) \o <<".","5","0">>
      [] OTHER -> IF \A i \in 1..Len(v.s) : IsDigit(v.s[i])
                  THEN NatToChars(DigitsValue(v.s)) \o <<".","0","0">>
                  ELSE Dash

T_Yes == <<"Y","e","s">>
T_No == <<"N","o">>
T_StoreClosedText ==
    <<"S","t","o","r","e"," ","c","l","o","s","e","d"," ","(","E","n","d"," ",
      "o","f"," ","d","a","y"," ","h","a","n","d","l","i","n","g",")">>

\* the In Stock text of the page
inStockText(data) ==
    LET s == ToUpperCase(StringOf(Coalesce(data.stock.status, Str(<<>>))))
        d == ToLowerCase(StringOf(Coalesce(data.stock.descriptionText, Str(<<>>))))
        q == data.stock.qty
    IN  IF data.storeClosed THEN T_StoreClosedText
        ELSE IF Includes(s, <<"O","U","T">>) THEN T_No
        ELSE IF Includes(s, <<"L","O","W">>) \/ Includes(s, <<"H","I","G","H">>) THEN T_Yes
        ELSE IF q.t = "int" THEN (IF q.n > 0 THEN T_Yes ELSE T_No)
        ELSE IF q.t = "frac" THEN (IF q.n >= 0 THEN T_Yes ELSE T_No)
        ELSE IF Includes(d, <<"i","n"," ","s","t","o","c","k">>) THEN T_Yes
        ELSE IF Includes(d, <<"o","u","t"," ","o","f"," ","s","t","o","c","k">>) THEN T_No
        ELSE Dash

\* res.status(200).send(...) of renderChangedetectionPage: the banner, the
\* In Stock, Price and Quantity values and the raw price the page shows
PageReply(data) ==
    [NoReply EXCEPT
        !.status = 200, !.kind = "page",
        !.page = <<[banner |-> data.storeClosed,
                    inStock |-> inStockText(data),
                    price |-> numberFixed(data.prices.store.raw),
                    priceRaw |-> IF data.prices.store.raw.t = "null" THEN <<>>
                                 ELSE StringOf(data.prices.store.raw),
                    qty |-> IF data.stock.qty.t = "null" THEN Dash
                            ELSE StringOf(data.stock.qty)]>>]

\* the catch of the page routes: status 200 and a page with the message
ErrorPage(err) == [NoReply EXCEPT !.status = 200, !.kind = "errorPage", !.error = err]

HttpRoutes == {"api", "page"}

\* the keys of the requests; article 0: a request whose article number is
\* missing or has no digits
HttpKeys ==
    {[article |-> n, store |-> 1, market |-> "au", lang |-> "en"] : n \in {0, 1}}

\* what each resource answers to the lookups of the routes, and what the
\* CIA resource answers to the handler of /api/lookup
HttpResponsesOf(name) ==
    CASE name = "details" -> {R_Details, R_NotFound}
      [] name = "scan" -> {R_Scan, R_Closed, R_NotFound}
      [] name = "avail" -> {R_Avail}
      [] OTHER -> {R_Cia, R_NotFound}
HandlerCiaResponses == {R_Cia, R_NotFound, NetworkError}

\* a handler from the point where its lookupMerged call has completed (st,
\* out) up to its reply or its next await:
\* [cache, requested, st, cia, reply]
AfterLookup(route, a, st, out, c, t) ==
    IF st = "running"
    THEN [cache |-> c, requested |-> FALSE, st |-> "lookup", cia |-> <<>>,
          reply |-> NoReply]
    ELSE IF route = "page"
    THEN [cache |-> c, requested |-> FALSE, st |-> "done", cia |-> <<>>,
          reply |-> IF st = "failed" THEN ErrorPage(out.err)
                    ELSE PageReply(out.rec[1])]
    ELSE IF st = "failed"
    THEN [cache |-> c, requested |-> FALSE, st |-> "done", cia |-> <<>>,
          reply |-> ServerError(out.err)]
    ELSE LET call == FetchCall("fetchJsonCia", UrlCia(a.article, a.market), c, t) IN
         IF call.hit
         THEN [cache |-> call.cache, requested |-> FALSE, st |-> "done",
               cia |-> <<Slot(call)>>,
               reply |-> ApiAfterCia(a, out.rec[1], call.res)]
         ELSE [cache |-> call.cache, requested |-> TRUE, st |-> "cia",
               cia |-> <<Slot(call)>>, reply |-> NoReply]

InitHttp ==
    /\ IdleClock /\ IdleCache /\ IdleFetch /\ IdleLookup /\ IdleQty /\ IdleMerge /\ IdleHttp
    /\ IdleUpstream /\ IdleReads
    /\ requests = [u \in LookupUrls |-> 0]

\* a request arrives at one of the two routes, once the requests before it
\* have been answered and their fetches have settled; the handler runs up
\* to its first await that has to wait
Receive(route, a) ==
    /\ Len(http) < MaxRequests
    /\ \A h \in 1..Len(http) : http[h].st = "done"
    /\ \A i \in 1..Len(lk) : AllSettled(lk[i].f)
    /\ IF a.article = 0
       THEN /\ http' = Append(http, [route |-> route, args |-> a, lk |-> 0,
                                     st |-> "done", cia |-> <<>>, reply |-> BadRequest])
            /\ UNCHANGED <<cache, requests, lk, nLookups>>
       ELSE /\ \E d \in {FetchCall(FnOf("details"), UrlOf(a, "details"), cache, now)} :
               \E s \in {FetchCall(FnOf("scan"), UrlOf(a, "scan"), d.cache, now)} :
               \E v \in {FetchCall(FnOf("avail"), UrlOf(a, "avail"), s.cache, now)} :
               \E c \in {FetchCall(FnOf("cia"), UrlOf(a, "cia"), v.cache, now)} :
               \E f \in {"details" :> Slot(d) @@ "scan" :> Slot(s) @@
                          "avail" :> Slot(v) @@ "cia" :> Slot(c)} :
               \E p \in {PromiseAll(a, f, "running", NoOut, "cia")} :
               \E k \in {AfterLookup(route, a, p.st, p.out, c.cache, now)} :
                  /\ cache' = k.cache
                  /\ requests' = [u \in LookupUrls |->
                                    requests[u] +
                                    Cardinality({name \in FetchNames :
                                        UrlOf(a, name) = u /\ ~f[name].hit}) +
                                    (IF k.requested /\ u = UrlCia(a.article, a.market)
                                     THEN 1 ELSE 0)]
                  /\ lk' = Append(lk, [args |-> a, f |-> f, st |-> p.st, out |-> p.out])
                  /\ http' = Append(http, [route |-> route, args |-> a,
                                           lk |-> Len(lk) + 1, st |-> k.st,
                                           cia |-> k.cia, reply |-> k.reply])
            /\ nLookups' = nLookups + 1
    /\ UNCHANGED <<now, nTicks, slots, nCalls, hist, nextKey, qtyIn, qtyOut, mIn, mOut, stalled,
                   upstream, storeHoursCache, lastGet, late>>

\* the upstream answers one of the fetches of the lookup of request h; when
\* that completes the lookup the handler goes on
RespondRoute(h, name, resp) ==
    /\ http[h].lk # 0
    /\ lk[http[h].lk].f[name].res.st = "inflight"
    /\ \E i \in {http[h].lk} :
       \E r \in {FetchResponse(FnOf(name), UrlOf(lk[i].args, name), resp, cache, now)} :
       \E f \in {[lk[i].f EXCEPT ![name].res = r.res, ![name].got = <<Got(resp)>>]} :
       \E p \in {PromiseAll(lk[i].args, f, lk[i].st, lk[i].out, name)} :
       \E k \in {IF http[h].st = "lookup"
                 THEN AfterLookup(http[h].route, http[h].args, p.st, p.out, r.cache, now)
                 ELSE [cache |-> r.cache, requested |-> FALSE, st |-> http[h].st,
                       cia |-> http[h].cia, reply |-> http[h].reply]} :
          /\ cache' = k.cache
          /\ requests' = IF k.requested
                         THEN [requests EXCEPT
                                 ![UrlCia(http[h].args.article, http[h].args.market)] = @ + 1]
                         ELSE requests
          /\ lk' = [lk EXCEPT ![i] = [args |-> lk[i].args, f |-> f,
                                      st |-> p.st, out |-> p.out]]
          /\ http' = [http EXCEPT ![h].st = k.st, ![h].cia = k.cia,
                                  ![h].reply = k.reply]
    /\ UNCHANGED <<now, nTicks, slots, nCalls, nLookups, hist, nextKey,
                   qtyIn, qtyOut, mIn, mOut, stalled,
                   upstream, storeHoursCache, lastGet, late>>

\* the CIA resource answers the fetch of the /api/lookup handler
RespondCia(h, resp) ==
    /\ http[h].st = "cia"
    /\ \E r \in {FetchResponse("fetchJsonCia",
                    UrlCia(http[h].args.article, http[h].args.market), resp, cache, now)} :
          /\ cache' = r.cache
          /\ http' = [http EXCEPT
                        ![h].st = "done",
                        ![h].cia = <<[hit |-> FALSE, got |-> <<Got(resp)>>, res |-> r.res]>>,
                        ![h].reply = ApiAfterCia(http[h].args,
                                         lk[http[h].lk].out.rec[1], r.res)]
    /\ UNCHANGED <<now, nTicks, requests, slots, nCalls, lk, nLookups, hist, nextKey,
                   qtyIn, qtyOut, mIn, mOut, stalled,
                   upstream, storeHoursCache, lastGet, late>>

\* no request arrives for longer than the cache keeps an entry
Sleep ==
    /\ nTicks < MaxSleeps
    /\ \A h \in 1..Len(http) : http[h].st = "done"
    /\ \A i \in 1..Len(lk) : AllSettled(lk[i].f)
    /\ now' = now + CACHE_TTL_MS + 1
    /\ nTicks' = nTicks + 1
    /\ UNCHANGED <<cache, requests, slots, nCalls, lk, nLookups, hist, nextKey,
                   qtyIn, qtyOut, mIn, mOut, http, stalled,
                   upstream, storeHoursCache, lastGet, late>>

Requests == \E route \in HttpRoutes, a \in HttpKeys : Receive(route, a)
RouteResponses ==
    \E h \in 1..Len(http), name \in FetchNames :
        \E resp \in HttpResponsesOf(name) : RespondRoute(h, name, resp)
CiaResponses ==
    \E h \in 1..Len(http), resp \in HandlerCiaResponses : RespondCia(h, resp)

NextHttp == Requests \/ RouteResponses \/ CiaResponses \/ Sleep

SpecHttp == InitHttp /\ [][NextHttp]_vars

----------------------------------------------------------------------------
(* Claims about the routes, checked under SpecHttp *)

\* the three other fetches of a lookup allow a record: the product-details
\* and availability fetches succeeded and the scan fetch was answered 2xx
\* or with the closed-store response
AllowsRecord(l) ==
    /\ IsFulfilled(l.f["details"])
    /\ IsFulfilled(l.f["avail"])
    /\ IsFulfilled(l.f["scan"])
    /\ l.f["scan"].res.ok \/ l.f["scan"].got \in {<<g>> : g \in ClosedScanGots}

\* C11: a failure of a CIA fetch never prevents a record.  A lookup whose
\* three other fetches allow a record and whose CIA fetch was rejected never
\* fails and, once settled, has returned a record whose cia part has
\* ok = false, the error of the CIA fetch and no summary.  A request to
\* /api/lookup whose lookup allows a record is never answered with an
\* error, and when the handler's own CIA fetch was rejected the reply is
\* the record, status 200, with cia null and ciaError the error of that
\* fetch.
C11_CiaFailureKeepsRecord ==
    \A h \in 1..Len(http) :
        (http[h].lk # 0 /\ AllowsRecord(lk[http[h].lk])) =>
            LET l == lk[http[h].lk]
                q == http[h]
            IN  /\ l.st # "failed"
                /\ (IsRejected(l.f["cia"])) =>
                      /\ l.st = "returned"
                      /\ l.out.kind = "record"
                      /\ l.out.rec[1].cia.ok = FALSE
                      /\ l.out.rec[1].cia.error = l.f["cia"].res.err
                      /\ l.out.rec[1].cia.error # NoErr
                      /\ ~l.out.rec[1].cia.hasSummary
                      /\ l.out.rec[1].cia.summary = NoSummary
                /\ q.route = "api" =>
                      /\ q.reply.status \in {0, 200}
                      /\ (AllSettled(l.f) /\ q.st = "lookup") => FALSE
                      /\ (q.st = "done") =>
                            /\ q.reply.status = 200
                            /\ q.reply.result = l.out.rec
                            /\ q.cia # <<>>
                            /\ IsRejected(q.cia[1]) =>
                                  /\ q.reply.cia = <<>>
                                  /\ q.reply.ciaError = q.cia[1].res.err
                                  /\ q.reply.ciaError # NoErr

\* a request to /api/lookup was answered with the record although both the
\* CIA fetch of lookupMerged and the handler's own were rejected
C11_Witness ==
    \E h \in 1..Len(http) :
        /\ http[h].route = "api"
        /\ http[h].st = "done"
        /\ http[h].lk # 0
        /\ IsRejected(lk[http[h].lk].f["cia"])
        /\ http[h].cia # <<>>
        /\ IsRejected(http[h].cia[1])
        /\ http[h].reply.status = 200
        /\ http[h].reply.result # <<>>


\* the changedetection page was served for request h
ServedPage(h) ==
    /\ http[h].route = "page"
    /\ http[h].st = "done"
    /\ http[h].reply.kind = "page"

\* C12: the changedetection page keeps the last-known-good in-store price
\* and quantity while the store is closed: when the page was served for a
\* store and article with the store open and is served again for them with
\* the store closed (the scan answered STORE_CLOSED), the Price and Quantity
\* of the later page are those of the earlier one.
C12_ClosedPageKeepsPriceAndQty ==
    \A i \in 1..Len(http), j \in 1..Len(http) :
        (/\ i < j
         /\ ServedPage(i) /\ ServedPage(j)
         /\ http[i].args = http[j].args
         /\ ~lk[http[i].lk].out.rec[1].storeClosed
         /\ lk[http[j].lk].f["scan"].got = <<Got(R_Closed)>>) =>
            /\ http[j].reply.page[1].price = http[i].reply.page[1].price
            /\ http[j].reply.page[1].qty = http[i].reply.page[1].qty

----------------------------------------------------------------------------
(* lookupMerged and an upstream that may never answer.  No fetch function  *)
(* passes a signal or a timeout to fetch(), and lookupMerged starts no     *)
(* timer: a fetch in flight settles only when the upstream has answered in *)
(* full (headers and body) or the connection fails.  Stall marks a fetch   *)
(* whose answer the upstream never completes.                              *)

StallResponsesOf(name) ==
    CASE name = "details" -> {R_Details, R_NotFound}
      [] name = "scan" -> {R_Scan, R_Closed, R_NotFound, NetworkError}
      [] name = "avail" -> {R_Avail}
      [] OTHER -> {R_Cia, R_NotFound}

\* the upstream keeps the request of one fetch of lookup i open and never
\* completes its answer
Stall(i, name) ==
    /\ lk[i].f[name].res.st = "inflight"
    /\ <<i, name>> \notin stalled
    /\ stalled' = stalled \cup {<<i, name>>}
    /\ UNCHANGED <<cache, now, requests, slots, nCalls, nTicks, lk, nLookups,
                   hist, nextKey, qtyIn, qtyOut, mIn, mOut, http,
                   upstream, storeHoursCache, lastGet, late>>

\* the upstream answers a fetch it has not left unanswered
RespondAnswered(i, name, resp) ==
    /\ <<i, name>> \notin stalled
    /\ RespondLookup(i, name, resp)

Stalls == \E i \in 1..Len(lk), name \in FetchNames : Stall(i, name)
AnsweredResponses ==
    \E i \in 1..Len(lk), name \in FetchNames :
        \E resp \in StallResponsesOf(name) : RespondAnswered(i, name, resp)

NextStall == Lookups \/ AnsweredResponses \/ Stalls

SpecStall == Init /\ [][NextStall]_vars

\* the fetches of lookup i that can still settle: in flight and not left
\* unanswered
CanSettle(i) ==
    {name \in FetchNames :
        lk[i].f[name].res.st = "inflight" /\ <<i, name>> \notin stalled}

\* C13: every upstream call is bounded by a timeout, so that a lookupMerged
\* call completes, with a record or an error, even when an upstream
\* resource never answers: a lookup that has not completed always has a
\* fetch that can still settle, whose settling (or timing out) will let it
\* go on.
C13_RunningLookupCanGoOn ==
    \A i \in 1..Len(lk) : lk[i].st = "running" => CanSettle(i) # {}

----------------------------------------------------------------------------
(* Further claims about the merge, checked under SpecMerge *)

\* the scan outcome the merge was given: what fetchJsonInfo returned
ScanOutcome == mIn[1].scanInfo

\* the decoded body of the scan outcome is an object whose type is
\* STORE_CLOSED, in any case of the letters
TypeSaysClosed ==
    /\ ScanOutcome.data.t = "object"
    /\ Pick(ScanOutcome.data, "type").t = "str"
    /\ ToUpperCase(Pick(ScanOutcome.data, "type").s) = T_StoreClosed

\* the text of the scan outcome holds one of the two markers
TextSaysClosed ==
    \/ Includes(ScanOutcome.text, <<"S","T","O","R","E","_","C","L","O","S","E","D">>)
    \/ Includes(ScanOutcome.text, <<"E","n","d"," ","o","f"," ","d","a","y">>)

\* C14: lookupMerged takes the scan outcome for a closed store (and returns
\* a record with storeClosed = true) if and only if the outcome is a failure
\* with status 503 and either its decoded body is an object whose type is
\* STORE_CLOSED, case-insensitively, or its text contains "STORE_CLOSED" or
\* "End of day"; any 2xx outcome gives a record with storeClosed = false,
\* and any other failure gives no record.
C14_ClosedIffMarked503 ==
    mOut # <<>> =>
        LET closed == /\ ~ScanOutcome.ok
                      /\ ScanOutcome.status = 503
                      /\ TypeSaysClosed \/ TextSaysClosed
        IN  /\ (Returned /\ Rec.storeClosed) <=> closed
            /\ ScanOutcome.ok => (Returned /\ ~Rec.storeClosed)
            /\ (~ScanOutcome.ok /\ ~closed) => ~Returned

\* a 503 whose body says store_closed in lower case, so that only the type
\* of the decoded body tells, was taken for a closed store
C14_Witness ==
    /\ Returned
    /\ Rec.storeClosed
    /\ ScanOutcome.status = 503
    /\ TypeSaysClosed
    /\ ~TextSaysClosed

----------------------------------------------------------------------------
(* Further claims about the cache and the fetch layer, checked under       *)
(* SpecFetch                                                               *)

\* the step is a call of a fetch function, which reads the cache; the call
CallStep == nCalls' = nCalls + 1
NewCall == slots'[Len(slots')]

\* the step is the arrival of the response to call i
ResponseStep(i) ==
    /\ i \in 1..Len(slots)
    /\ Len(slots') = Len(slots)
    /\ slots[i].res.st = "inflight"
    /\ slots'[i].res.st # "inflight"

\* the keys the step removes from the cache
RemovedKeys == {cache[i].key : i \in 1..Len(cache)} \ {cache'[i].key : i \in 1..Len(cache')}

\* C15: lazy expiry.  A read of a key whose entry has expired reports
\* absence (the fetch function goes on to issue a request) and removes
\* exactly that entry; a read never returns the value of an expired entry,
\* and any other read leaves the cache as it is; a step of any other kind
\* removes an entry only as the eviction of the oldest one by a cacheSet on
\* a full cache.
C15_LazyExpiry ==
    [][/\ CallStep =>
            LET key == CacheKey(NewCall.fn, NewCall.url)
                i == KeyIndex(cache, key)
            IN  /\ (i # 0 /\ now > cache[i].expires) =>
                      /\ ~NewCall.hit
                      /\ NewCall.res.st = "inflight"
                      /\ cache' = RemoveAt(cache, i)
                /\ ~(i # 0 /\ now > cache[i].expires) => cache' = cache
                /\ NewCall.hit =>
                      /\ i # 0
                      /\ now <= cache[i].expires
                      /\ NewCall.res.data = cache[i].value
       /\ ~CallStep =>
            \/ RemovedKeys = {}
            \/ /\ \E i \in 1..Len(slots) : ResponseStep(i)
               /\ Len(cache) = CacheMax
               /\ RemovedKeys = {cache[1].key}
      ]_vars

\* a call stored its result and the next call of the same function for the
\* same URL came after the entry had expired: it found nothing, issued a
\* request, and the entry is gone
C15_Witness ==
    /\ Len(slots) = 2
    /\ StoredItsResult(slots[1])
    /\ Truthy(slots[1].res.data)
    /\ slots[2].fn = slots[1].fn
    /\ slots[2].url = slots[1].url
    /\ ~slots[2].hit
    /\ slots[2].res.st = "inflight"
    /\ KeyIndex(cache, CacheKey(slots[2].fn, slots[2].url)) = 0


\* what the 2xx responses of the harness decode to: their JSON values, and
\* their texts for fetchText
DecodedFrom2xx(ns) ==
    IF ns = "text:"
    THEN {IF r.text = <<>> THEN EmptyStrDoc ELSE StrDoc(r.text) :
            r \in {x \in HarnessResponses : ~x.net /\ Is2xx(x.status) /\ x.readable}}
    ELSE {r.doc :
            r \in {x \in HarnessResponses :
                     ~x.net /\ Is2xx(x.status) /\ x.readable /\ x.parses}}

\* C16: the cache holds no entry made from a non-2xx response or from a
\* body that could not be decoded.  The arrival of a response changes the
\* cache only when the response is 2xx and its body was decoded, and for
\* fetchJsonInfo only when the decoded data is not null; the entry written
\* holds the decoded value; a call that fails (rejects, or for
\* fetchJsonInfo returns ok = false) leaves the cache unchanged.  So every
\* entry holds a value decoded from a 2xx response.
C16_OnlyDecoded2xxCached ==
    [][/\ \A i \in 1..Len(slots) :
            ResponseStep(i) =>
                LET call == slots'[i]
                    k == KeyIndex(cache', CacheKey(call.fn, call.url))
                    failed == \/ call.res.st = "rejected"
                              \/ call.fn = "fetchJsonInfo" /\ ~call.res.ok
                IN  /\ cache' # cache =>
                          /\ ~call.gotNet
                          /\ Is2xx(call.gotStatus)
                          /\ call.res.st = "fulfilled"
                          /\ call.fn = "fetchJsonInfo" => call.res.data # NullDoc
                          /\ k # 0
                          /\ cache'[k].value = call.res.data
                    /\ failed => cache' = cache
       /\ \A j \in 1..Len(cache') :
            cache'[j].value \in DecodedFrom2xx(cache'[j].key.ns)
      ]_vars

\* fetchJsonInfo got the closed-store 503, whose body is JSON, and the cache
\* is still empty
C16_Witness ==
    \E i \in 1..Len(slots) :
        /\ slots[i].fn = "fetchJsonInfo"
        /\ slots[i].gotStatus = 503
        /\ slots[i].res.st = "fulfilled"
        /\ slots[i].res.data = DocClosed
        /\ cache = <<>>

----------------------------------------------------------------------------
(* Further claims about extractQtyFromText, checked under SpecQty *)

T_ThereAre145InStock ==
    <<"T","h","e","r","e"," ","a","r","e"," ","1","4","5"," ","i","n"," ",
      "s","t","o","c","k">>

\* the contextual patterns, by their place in the list, that match the text
MatchingPatterns(text) ==
    {p \in 1..4 : ContextualMatch(p, Scanned(text)) # <<>>}

\* the number the p-th pattern captures in the text
Captured(p, text) == parseNumberLike(ContextualMatch(p, Scanned(text)))

\* C17 as claimed: when the text matches at least one contextual pattern,
\* extractQtyFromText returns the number captured by the first pattern of
\* the list that matches; "There are 145 in stock" gives 145.
C17_FirstMatchingPatternWins ==
    /\ extractQtyFromText(Str(T_ThereAre145InStock)) = Num(145)
    /\ (qtyOut # <<>> /\ MatchingPatterns(qtyIn) # {}) =>
          LET first == CHOOSE p \in MatchingPatterns(qtyIn) :
                          \A q \in MatchingPatterns(qtyIn) : p <= q
          IN qtyOut[1] = Num(Captured(first, qtyIn))

\* C17, amended: when the text matches at least one contextual pattern,
\* extractQtyFromText returns the number captured by the first pattern of
\* the list whose capture is not in 2000..2100; when every matching pattern
\* captured such a year, the result is that of the token scan: the single
\* standalone integer token outside 2000..2100, or null when there is none
\* or more than one.  "There are 145 in stock" gives 145.
C17_FirstNonYearCaptureWins ==
    /\ extractQtyFromText(Str(T_ThereAre145InStock)) = Num(145)
    /\ (qtyOut # <<>> /\ MatchingPatterns(qtyIn) # {}) =>
          LET good == {p \in MatchingPatterns(qtyIn) :
                          Captured(p, qtyIn) \notin 2000..2100}
              toks == IntegerTokens(Scanned(qtyIn), 1)
              kept == {i \in 1..Len(toks) :
                         parseNumberLike(toks[i]) \notin 2000..2100}
          IN  IF good # {}
              THEN qtyOut[1] =
                     Num(Captured(CHOOSE p \in good : \A q \in good : p <= q, qtyIn))
              ELSE IF Cardinality(kept) = 1
              THEN qtyOut[1] = Num(parseNumberLike(toks[CHOOSE i \in kept : TRUE]))
              ELSE qtyOut[1] = Undef

\* the first pattern of the list captured a year and a later one a
\* quantity, which was returned
C17_Witness ==
    /\ qtyOut # <<>>
    /\ 1 \in MatchingPatterns(qtyIn)
    /\ Captured(1, qtyIn) \in 2000..2100
    /\ 2 \in MatchingPatterns(qtyIn)
    /\ Captured(2, qtyIn) = 7
    /\ qtyOut[1] = Num(7)


\* the stock status lookupMerged resolves: the availability resource's
\* status code, else the scan resource's; and whether it holds the marker
ResolvedStatus ==
    ScanOr(IF mIn[1].avail.t = "array"
           THEN Pick(mIn[1].avail, "[0].status.code") ELSE Undef,
           ScanFact("presentationSection.productCard.product.availabilityStatus"))
SaysOut ==
    /\ ResolvedStatus.t = "str"
    /\ Includes(ToUpperCase(ResolvedStatus.s), <<"O","U","T">>)

\* the quantity resolved from the availability description text, and the
\* scan resource's maximum-orderable quantity
TextQty == extractQtyFromText(Rec.stock.descriptionText)
QtyHint == ScanFact("buyingDecisionSection.quantityPicker.max")

\* C18: in a returned record stock.qty is 0 when the resolved stock status
\* holds the out-of-stock marker, whatever the description text and the
\* scan quantity hint say; otherwise it is the quantity resolved from the
\* availability description text when that is not null, else the scan
\* resource's maximum-orderable quantity, else null.
C18_QtyResolution ==
    Returned =>
        IF SaysOut THEN Rec.stock.qty = Num(0)
        ELSE IF TextQty # Undef THEN Rec.stock.qty = TextQty
        ELSE IF QtyHint # Undef THEN Rec.stock.qty = QtyHint
        ELSE Rec.stock.qty = Undef

\* the status says out of stock while the description says 145 and the scan
\* hint 5: the quantity is 0
C18_Witness ==
    /\ Returned
    /\ SaysOut
    /\ TextQty = Num(145)
    /\ QtyHint = Num(5)
    /\ Rec.stock.qty = Num(0)


\* the in-store price and the location fields of the record are all null
StorePriceAndLocationNull ==
    /\ Rec.prices.store.raw = Undef
    /\ Rec.prices.store.text = Undef
    /\ Rec.location.division = Undef
    /\ Rec.location.floor = Undef
    /\ Rec.location.department = Undef
    /\ Rec.location.code = Undef
    /\ Rec.location.itemLocationText = Undef
    /\ Rec.location.itemLocationTextText = Undef

\* C19 as claimed: in a record returned with storeClosed = true the message
\* is the fixed explanation and the store-specific fields are null: the
\* in-store price, stock.qty and the location fields.
C19_ClosedRecordHasNoStoreFields ==
    (Returned /\ Rec.storeClosed) =>
        /\ Rec.storeClosedMessage = Str(StoreClosedMessage)
        /\ StoreClosedMessage # <<>>
        /\ StorePriceAndLocationNull
        /\ Rec.stock.qty = Undef

\* C19, amended: in a record returned with storeClosed = true the message
\* is the fixed explanation and the fields read from the scan resource are
\* null: the in-store price and the location fields.  stock.qty is not
\* among them: it is 0 when the availability resource's status holds the
\* out-of-stock marker, else the quantity resolved from the availability
\* description text, null only when that is; the scan quantity hint is
\* never used.
C19_ClosedRecordHasNoScanFields ==
    (Returned /\ Rec.storeClosed) =>
        /\ Rec.storeClosedMessage = Str(StoreClosedMessage)
        /\ StoreClosedMessage # <<>>
        /\ StorePriceAndLocationNull
        /\ Rec.stock.qty = IF SaysOut THEN Num(0) ELSE TextQty

\* the store is closed, the 503 body carried a product card, and the record
\* has no in-store price but the quantity 145 of the availability text
C19_Witness ==
    /\ Returned
    /\ Rec.storeClosed
    /\ ScanOutcome.data = DocClosedWithCard
    /\ Rec.prices.store.raw = Undef
    /\ Rec.stock.qty = Num(145)

----------------------------------------------------------------------------
(* Further claims about lookupMerged as a process, checked under Spec *)

\* the fetches of the lookups made so far that went to the upstream for url
Requested(url) ==
    {<<i, name>> \in (1..Len(lk)) \X FetchNames :
        UrlOf(lk[i].args, name) = url /\ ~lk[i].f[name].hit}

\* all the fetches of every lookup were issued when it started: each one
\* that the cache did not answer has issued its request
AllIssuedAtStart ==
    \A url \in LookupUrls : requests[url] = Cardinality(Requested(url))

\* C20 as claimed: the four fetches of a lookup are issued before the result
\* of any is awaited, and the lookup does not complete, with a record or an
\* error, until every one of them has settled.
C20_CompletesAfterAllSettled ==
    /\ AllIssuedAtStart
    /\ \A i \in 1..Len(lk) : lk[i].st # "running" => AllSettled(lk[i].f)

\* C20, amended: the four fetches of a lookup are issued before the result
\* of any is awaited, and the lookup does not return a record until every
\* one of them has settled; it fails as soon as the product-details, scan
\* or availability fetch is rejected, with the error of that fetch, also
\* while other fetches are in flight, and otherwise does not fail before
\* all have settled.
C20_ReturnsAfterAllSettled ==
    /\ AllIssuedAtStart
    /\ \A i \in 1..Len(lk) :
          LET l == lk[i] IN
          /\ l.st = "returned" => AllSettled(l.f)
          /\ (l.st = "failed" /\ ~AllSettled(l.f)) =>
                \E name \in StrictNames :
                    /\ IsRejected(l.f[name])
                    /\ l.out.err = l.f[name].res.err

\* a lookup has failed on the rejection of its product-details fetch while
\* its three other fetches, all issued, were still in flight
C20_Witness ==
    \E i \in 1..Len(lk) :
        /\ lk[i].st = "failed"
        /\ IsRejected(lk[i].f["details"])
        /\ \A name \in FetchNames \ {"details"} :
              /\ ~lk[i].f[name].hit
              /\ lk[i].f[name].res.st = "inflight"
        /\ \A name \in FetchNames : requests[UrlOf(lk[i].args, name)] >= 1

----------------------------------------------------------------------------
(* Concurrent lookups.  lookupMerged is called while the fetches of        *)
(* earlier lookups are still in flight, for the same key or for another    *)
(* store.  Two stores of one market share the product-details URL and the  *)
(* CIA URL; the scan and availability URLs are the store's own.            *)
(* upstream gives, for each URL, the responses the upstream may answer     *)
(* with: one response where it always answers the same.                    *)

ConcurrentKeys ==
    {[article |-> 1, store |-> s, market |-> "au", lang |-> "en"] : s \in {1, 2}}

S_C == Str(<<"C">>)
D_Product2 == DetailsDoc(S_B, S_B, Undef, Undef)
S_Product2 == ScanDoc(S_A, Undef, Undef, S_A, Num(7), Undef)
S_ProductStore2 == ScanDoc(S_C, Undef, Undef, S_C, Num(9), Undef)
A_StockStore2 == AvailDoc(Str(<<"9"," ","l","e","f","t">>), Str(T_HighInStock))

\* a second answer of the same URL has a body of its own
R_Details2 == Response(200, TRUE, D_Product2.j \o <<" ">>, TRUE, D_Product2)
R_Scan2 == Response(200, TRUE, S_Product2.j \o <<" ">>, TRUE, S_Product2)
R_ScanStore2 == Response(200, TRUE, S_ProductStore2.j \o <<"\n">>, TRUE, S_ProductStore2)
R_AvailStore2 == Response(200, TRUE, A_StockStore2.j \o <<"\n">>, TRUE, A_StockStore2)

\* the URLs of the lookups for the stores given
UrlsOfStores(stores) ==
    {UrlOf(a, name) : a \in {k \in ConcurrentKeys : k.store \in stores},
                      name \in FetchNames}

UpstreamOf(stores, d, s1, s2, c) ==
    [u \in UrlsOfStores(stores) |->
        CASE u.res = "productDetails" -> d
          [] u.res = "scanShop" -> IF u.store = 1 THEN s1 ELSE s2
          [] u.res = "availability" -> IF u.store = 1 THEN {R_Avail} ELSE {R_AvailStore2}
          [] OTHER -> c]

\* two stores and an upstream that always answers the same: well; with a
\* closed store, an unknown store and no CIA data; with no such product
FixedUpstreams ==
    {UpstreamOf({1, 2}, {R_Details}, {R_Scan}, {R_ScanStore2}, {R_Cia}),
     UpstreamOf({1, 2}, {R_Details}, {R_Closed}, {R_NotFound}, {R_NotFound}),
     UpstreamOf({1, 2}, {R_NotFound}, {R_Scan}, {R_ScanStore2}, {R_Cia})}

\* one store and an upstream whose answers change between two requests
ChangingUpstreams ==
    {UpstreamOf({1}, {R_Details}, {R_Scan, R_Scan2, R_Closed}, {R_ScanStore2}, {R_Cia}),
     UpstreamOf({1}, {R_Details, R_Details2}, {R_Scan}, {R_ScanStore2}, {R_NotFound})}

IdleButUpstream ==
    /\ IdleClock /\ IdleCache /\ IdleFetch /\ IdleLookup /\ IdleQty /\ IdleMerge /\ IdleHttp
    /\ IdleReads
    /\ requests = [u \in DOMAIN upstream |-> 0]

\* lookups for the same key
InitSameKey == upstream \in ChangingUpstreams /\ IdleButUpstream

\* lookups for the same store or for two stores
InitConcurrent == upstream \in FixedUpstreams /\ IdleButUpstream

\* lookupMerged is called, whatever the earlier lookups are waiting for; the
\* first lookup is the one for store 1
StartConcurrent(a) ==
    /\ nLookups < MaxLookups
    /\ \A name \in FetchNames : UrlOf(a, name) \in DOMAIN upstream
    /\ lk = <<>> => a.store = 1
    /\ \E d \in {FetchCall(FnOf("details"), UrlOf(a, "details"), cache, now)} :
       \E s \in {FetchCall(FnOf("scan"), UrlOf(a, "scan"), d.cache, now)} :
       \E v \in {FetchCall(FnOf("avail"), UrlOf(a, "avail"), s.cache, now)} :
       \E c \in {FetchCall(FnOf("cia"), UrlOf(a, "cia"), v.cache, now)} :
       \E f \in {"details" :> Slot(d) @@ "scan" :> Slot(s) @@
                  "avail" :> Slot(v) @@ "cia" :> Slot(c)} :
       \E p \in {PromiseAll(a, f, "running", NoOut, "cia")} :
          /\ cache' = c.cache
          /\ requests' = [u \in DOMAIN requests |->
                            requests[u] +
                            Cardinality({name \in FetchNames :
                                UrlOf(a, name) = u /\ ~f[name].hit})]
          /\ lk' = Append(lk, [args |-> a, f |-> f, st |-> p.st, out |-> p.out])
    /\ nLookups' = nLookups + 1
    /\ UNCHANGED <<now, nTicks, slots, nCalls, hist, nextKey, qtyIn, qtyOut, mIn, mOut,
                   http, stalled, upstream, storeHoursCache, lastGet, late>>

\* the upstream answers one of the fetches in flight, of any lookup, with
\* one of the responses it gives for that URL
RespondConcurrent(i, name, resp) ==
    /\ resp \in upstream[UrlOf(lk[i].args, name)]
    /\ RespondLookup(i, name, resp)

ConcurrentLookups == \E a \in ConcurrentKeys : StartConcurrent(a)
ConcurrentResponses ==
    \E i \in 1..Len(lk), name \in FetchNames :
        \E resp \in upstream[UrlOf(lk[i].args, name)] : RespondConcurrent(i, name, resp)

NextConcurrent == ConcurrentLookups \/ ConcurrentResponses

SpecSameKey == InitSameKey /\ [][NextConcurrent]_vars

SpecConcurrent == InitConcurrent /\ [][NextConcurrent]_vars

----------------------------------------------------------------------------
(* Claims about concurrent lookups, checked under SpecSameKey and          *)
(* SpecConcurrent *)

\* the documents the upstream has returned for a URL in 2xx responses, to
\* whichever lookup asked
Returned2xx(u) ==
    {r.doc : r \in {x \in upstream[u] :
                       /\ ResOk(x)
                       /\ \E i \in 1..Len(lk), name \in FetchNames :
                             /\ UrlOf(lk[i].args, name) = u
                             /\ lk[i].f[name].got = <<Got(x)>>}}

\* the document of each resource that lookupMerged puts into its record
DocUsed(l, name) ==
    CASE name = "scan" -> ScanData(l.f[name].res)
      [] name = "cia" -> CiaRes(l.f[name].res).data
      [] OTHER -> l.f[name].res.data

\* the lookup had no 2xx response for the resource: a scan answered by
\* another status, a CIA fetch that failed
NothingUsable(l, name) ==
    \/ name = "scan" /\ ~l.f[name].res.ok
    \/ name = "cia" /\ l.f[name].res.st = "rejected"

SameKeyPair == Len(lk) = 2 /\ lk[1].args = lk[2].args

\* C21: two lookups for the same key that overlap on a cold cache are not
\* merged into one, and no harm comes of it.  Each lookup that returns a
\* record has built it from one document per resource, and that document is
\* one the upstream returned in a 2xx response for this lookup's URL of the
\* resource (to this lookup or, through the cache, to the other one); where
\* the lookup had no 2xx response (closed store, failed CIA fetch) it used
\* no document at all.  And every cache entry holds, under the key of a URL,
\* a document the upstream returned with 2xx for that URL.
C21_SameKeyLookupsHarmless ==
    SameKeyPair =>
        /\ \A i \in 1..2 :
              lk[i].out.kind = "record" =>
                 /\ lk[i].out.rec[1] =
                       MergedRecord(lk[i].args, Urls(lk[i].args),
                                    lk[i].f["details"].res.data, lk[i].f["scan"].res,
                                    lk[i].f["avail"].res.data, CiaRes(lk[i].f["cia"].res))
                 /\ \A name \in FetchNames :
                       IF NothingUsable(lk[i], name)
                       THEN DocUsed(lk[i], name) = NullDoc
                       ELSE DocUsed(lk[i], name) \in Returned2xx(UrlOf(lk[i].args, name))
        /\ \A k \in 1..Len(cache) :
              /\ cache[k].value \in Returned2xx(cache[k].key.url)
              /\ \E name \in FetchNames :
                    cache[k].key = CacheKey(FnOf(name), UrlOf(lk[1].args, name))

\* both lookups were in flight together and each asked the upstream for
\* the scan URL; the upstream answered them differently, each returned the
\* record of its own answer, and the cache holds the answer stored last
C21_Witness ==
    /\ SameKeyPair
    /\ requests[UrlOf(lk[1].args, "scan")] = 2
    /\ \A name \in FetchNames : ~lk[1].f[name].hit /\ ~lk[2].f[name].hit
    /\ lk[1].out.kind = "record" /\ lk[2].out.kind = "record"
    /\ lk[1].f["scan"].got = <<Got(R_Scan)>>
    /\ lk[2].f["scan"].got = <<Got(R_Scan2)>>
    /\ lk[1].out.rec[1].product.title = S_B
    /\ lk[2].out.rec[1].product.title = S_A
    /\ \E k \in 1..Len(cache) :
          /\ cache[k].key = CacheKey("fetchJsonInfo", UrlOf(lk[1].args, "scan"))
          /\ cache[k].value = S_Product


\* the one response the upstream gives for a URL it always answers alike
TheResponse(u) == CHOOSE r \in upstream[u] : TRUE

\* the fetch results of a lookup for key a that runs alone on a cold cache
AloneFetch(a, name) ==
    FetchResponse(FnOf(name), UrlOf(a, name), TheResponse(UrlOf(a, name)), <<>>, 0).res

\* ... the errors it can fail with at Promise.all
AloneRejections(a) ==
    {AloneFetch(a, name).err : name \in {n \in StrictNames : AloneFetch(a, n).st = "rejected"}}

\* ... and what it returns or throws once the four fetches have settled
AloneOutcome(a) ==
    AfterAllSettled(a, Urls(a), AloneFetch(a, "details").data, AloneFetch(a, "scan"),
                    AloneFetch(a, "avail").data, CiaRes(AloneFetch(a, "cia")))

OtherKeyRan(i) == \E j \in 1..Len(lk) : j # i /\ lk[j].args # lk[i].args

\* C22: with an upstream that answers each URL always alike, a lookup that
\* runs after or together with a lookup for another key (another store of
\* the same article, which shares the product-details and CIA URLs) ends as
\* it would have ended alone on a cold cache: it returns the same record,
\* or fails with an error it could have failed with alone.
C22_OtherKeysChangeNothing ==
    \A i \in 1..Len(lk) :
        (OtherKeyRan(i) /\ lk[i].st # "running") =>
            IF AloneRejections(lk[i].args) # {}
            THEN /\ lk[i].st = "failed"
                 /\ lk[i].out.kind = "error"
                 /\ lk[i].out.err \in AloneRejections(lk[i].args)
            ELSE lk[i].out = AloneOutcome(lk[i].args)

\* the lookup for store 2 started when the lookup for store 1 had already
\* stored the product details they share: it took them from the cache, had
\* its own scan and availability answered, and returned the record of
\* store 2; the lookup for store 1 returned the record of store 1
C22_Witness ==
    /\ Len(lk) = 2
    /\ lk[1].args.store = 1 /\ lk[2].args.store = 2
    /\ lk[2].f["details"].hit
    /\ ~lk[2].f["scan"].hit /\ ~lk[2].f["avail"].hit
    /\ lk[1].st = "returned" /\ lk[2].st = "returned"
    /\ lk[1].out.rec[1].product.title = S_B
    /\ lk[1].out.rec[1].stock.qty = Num(5)
    /\ lk[2].out.rec[1].product.title = S_C
    /\ lk[2].out.rec[1].stock.qty = Num(9)
    /\ lk[2].out = AloneOutcome(lk[2].args)

----------------------------------------------------------------------------
(* Claims about the lifetime of cached pages, checked under SpecFetch *)

TextKey(url) == CacheKey("fetchText", url)

\* the entry fetchText has stored for a URL is still in the cache
HoldsPage(c, url) ==
    KeyIndex(c, TextKey(url)) # 0 /\ Truthy(c[KeyIndex(c, TextKey(url))].value)

\* C23 (as claimed): a page stored by fetchText outlives the default TTL: a
\* call of fetchText for a URL whose page is still held is a cache hit,
\* also when more than 60 s have passed since the page was stored.
C23_PageOutlivesDefaultTtl ==
    [][(CallStep /\ NewCall.fn = "fetchText" /\ HoldsPage(cache, NewCall.url))
          => NewCall.hit]_vars

\* C23 (amended): fetchText keeps its pages under keys of its own, "text:"
\* and the URL, for the default TTL and no longer.  The entry it stores
\* expires 60 s after the response; a call of fetchText made later than
\* that is no hit: it removes the entry and requests the page again; a call
\* that is a hit found the entry under the "text:" key, not yet expired; and
\* a call of fetchText never returns what another function has stored for
\* the same URL, nor another function what fetchText has stored.
C23_PageLivesDefaultTtl ==
    [][/\ \A i \in 1..Len(slots) :
             (ResponseStep(i) /\ slots[i].fn = "fetchText" /\ cache' # cache) =>
                LET k == KeyIndex(cache', TextKey(slots[i].url)) IN
                   /\ k # 0
                   /\ cache'[k].expires = now + CACHE_TTL_MS
                   /\ cache'[k].value = slots'[i].res.data
       /\ CallStep =>
             LET k == KeyIndex(cache, CacheKey(NewCall.fn, NewCall.url)) IN
                /\ (NewCall.fn = "fetchText" /\ k # 0 /\ now > cache[k].expires) =>
                      /\ ~NewCall.hit
                      /\ requests'[NewCall.url] = requests[NewCall.url] + 1
                      /\ KeyIndex(cache', TextKey(NewCall.url)) = 0
                /\ NewCall.hit =>
                      /\ k # 0
                      /\ NewCall.res.data = cache[k].value
                      /\ (cache[k].key.ns = "text:") = (NewCall.fn = "fetchText")
       /\ \A j \in 1..Len(cache') :
             cache'[j].key.ns = "text:" => cache'[j].expires <= now' + CACHE_TTL_MS
      ]_vars

\* fetchText stored a page, more than 60 s went by, and the next call of
\* fetchText for the URL went to the upstream again
C23_Witness ==
    /\ Len(slots) = 2
    /\ slots[1].fn = "fetchText" /\ slots[2].fn = "fetchText"
    /\ slots[1].url = slots[2].url
    /\ StoredItsResult(slots[1])
    /\ slots[1].res.data = StrDoc(T_Html)
    /\ now > CACHE_TTL_MS
    /\ ~slots[2].hit
    /\ requests[slots[2].url] = 2

----------------------------------------------------------------------------
(* The cache harness with reads: the store-hours cache is filled with one  *)
(* new slug after the other; then the fetch cache is filled as in          *)
(* SpecCache, its oldest entry is read with cacheGet, and the clock can    *)
(* jump past the TTL when the fetch cache has just filled up, so that      *)
(* every entry in it is expired and unread.  The two maps share nothing;   *)
(* the harness uses them one after the other.                              *)

MaxSlugs == 202

\* the slug the next storeHoursSet of the harness uses: 1, 2, ...; the
\* route /api/store-hours/:slug turns the empty slug away
NextSlug ==
    IF storeHoursCache = <<>> THEN 1
    ELSE storeHoursCache[Len(storeHoursCache)].key + 1

\* getStoreHours stores the hours of a store it has not stored before
SetHours ==
    /\ NextSlug <= MaxSlugs
    /\ cache = <<>> /\ nextKey = 1
    /\ storeHoursCache' = storeHoursSet(storeHoursCache, NextSlug,
                                        [slug |-> NextSlug], now)
    /\ UNCHANGED <<cache, now, requests, slots, nCalls, nTicks, lk, nLookups,
                   hist, nextKey, qtyIn, qtyOut, mIn, mOut, http, stalled,
                   upstream, lastGet, late>>

\* cacheGet with the key of the oldest entry
GetOldest ==
    /\ cache # <<>>
    /\ \E g \in {CacheGet(cache, cache[1].key, now)} :
          /\ cache' = g.cache
          /\ lastGet' = <<[key |-> cache[1].key, value |-> g.value]>>
    /\ UNCHANGED <<now, requests, slots, nCalls, nTicks, lk, nLookups,
                   hist, nextKey, qtyIn, qtyOut, mIn, mOut, http, stalled,
                   upstream, storeHoursCache, late>>

\* nothing is read or stored for longer than the TTL, with the cache full
Expire ==
    /\ nTicks < MaxSleeps
    /\ Len(cache) = CacheMax
    /\ now' = now + CACHE_TTL_MS + 1
    /\ nTicks' = nTicks + 1
    /\ UNCHANGED <<cache, requests, slots, nCalls, lk, nLookups, hist, nextKey,
                   qtyIn, qtyOut, mIn, mOut, http, stalled,
                   upstream, storeHoursCache, lastGet, late>>

HoursDone == NextSlug > MaxSlugs

NextReads ==
    \/ SetHours
    \/ HoursDone /\ SetNew
    \/ HoursDone /\ SetOldest
    \/ HoursDone /\ GetOldest
    \/ HoursDone /\ Expire

SpecReads == InitCache /\ [][NextReads]_vars


----------------------------------------------------------------------------
(* Claims about reads and the size of the caches, checked under SpecReads *)

\* the step is a cacheGet
GetStep == lastGet' # lastGet
\* the step is a cacheSet with a key that is not in the cache
SetNewStep == nextKey' = nextKey + 1

\* C24: a cacheGet that finds an entry that has not expired returns its
\* value and leaves the cache as it is, the order of the entries included.
\* And a read protects nothing: a cacheSet that adds a key to the full
\* cache removes the entry inserted earliest, and only that one, also when
\* that entry is the one read last.
C24_ReadKeepsEvictionOrder ==
    [][/\ (GetStep /\ now <= cache[1].expires) =>
             /\ cache' = cache
             /\ lastGet' = <<[key |-> cache[1].key, value |-> cache[1].value]>>
       /\ (SetNewStep /\ Len(cache) = CacheMax) =>
             /\ cache[1].key \notin KeySet(cache')
             /\ KeySet(cache) \ KeySet(cache') = {cache[1].key}
             /\ SubSeq(cache', 1, CacheMax - 1) = Tail(cache)
      ]_vars

\* the entry of key 1 was read by the last cacheGet, which found it, and
\* the cacheSet of the 501st key has removed it all the same
C24_Witness ==
    /\ lastGet = <<[key |-> HarnessKey(1), value |-> DocA]>>
    /\ nextKey = CacheMax + 2
    /\ hist = <<{HarnessKey(1)}>>
    /\ Len(cache) = CacheMax
    /\ cache[1].key = HarnessKey(2)

\* C25: between any two calls the fetch cache holds at most 500 entries and
\* the store-hours cache at most 200, expired entries that no read has
\* removed yet counted in.
C25_CachesBounded ==
    /\ Len(cache) <= CacheMax
    /\ Len(storeHoursCache) <= StoreHoursMax
    /\ Cardinality(KeySet(cache)) = Len(cache)

\* 202 slugs and 502 keys were stored, one entry was read after it had
\* expired and is gone; the store-hours cache holds 200 entries and the
\* fetch cache 500, of which 498 have expired and were never read
C25_Witness ==
    /\ NextSlug = MaxSlugs + 1
    /\ Len(storeHoursCache) = StoreHoursMax
    /\ storeHoursCache[1].key = 3
    /\ nextKey = MaxKeys + 1
    /\ Len(cache) = CacheMax
    /\ Cardinality({i \in 1..Len(cache) : now > cache[i].expires}) = CacheMax - 2
    /\ lastGet # <<>> /\ lastGet[1].value = NullDoc

----------------------------------------------------------------------------
(* Claims about lookups and the cache, checked under Spec *)

\* the lookup got its scan document from the cache
ScanFromCache(l) == l.f["scan"].hit

\* an earlier lookup that stored the scan document lookup i found
StoredScanBefore(i) ==
    {j \in 1..(i - 1) :
        /\ ~lk[j].f["scan"].hit
        /\ GotResponse(lk[j].f["scan"])
        /\ Is2xx(lk[j].f["scan"].got[1].status)
        /\ lk[j].f["scan"].res.data = lk[i].f["scan"].res.data}

\* C26: a lookup returns storeClosed = true only if it requested the scan
\* URL itself and got a 503 for it.  A lookup that finds the scan URL in the
\* cache makes no scan request: fetchJsonInfo gives it {ok: true, status:
\* 200} with the document an earlier lookup stored, and the record it
\* returns has storeClosed = false and the store data of that document,
\* whatever the upstream would answer by now.
C26_ClosedOnlyFromOwnScanRequest ==
    \A i \in 1..Len(lk) :
        LET l == lk[i] IN
        /\ (l.out.kind = "record" /\ l.out.rec[1].storeClosed) =>
              /\ ~ScanFromCache(l)
              /\ GotResponse(l.f["scan"])
              /\ l.f["scan"].got[1].status = 503
        /\ ScanFromCache(l) =>
              /\ l.f["scan"].got = <<>>
              /\ l.f["scan"].res.st = "fulfilled"
              /\ l.f["scan"].res.ok
              /\ l.f["scan"].res.status = 200
              /\ StoredScanBefore(i) # {}
              /\ l.out.kind = "record" =>
                    /\ ~l.out.rec[1].storeClosed
                    /\ l.out.rec[1].storeClosedMessage = Undef
                    /\ l.out.rec[1].prices.store.raw =
                          Pick(l.f["scan"].res.data,
                               "presentationSection.productCard.product.pricePackage.includingVat.rawPrice")
                    /\ l.out.rec[1].product.title =
                          Pick(l.f["scan"].res.data,
                               "presentationSection.productCard.product.title")

\* the second lookup started within the TTL of the scan document the first
\* one had stored: it requested the scan URL not at all (one request in
\* total) and returned the record of an open store with the cached data
C26_Witness ==
    /\ Len(lk) = 2
    /\ ~lk[1].f["scan"].hit
    /\ lk[2].f["scan"].hit
    /\ requests[UrlOf(lk[2].args, "scan")] = 1
    /\ lk[2].st = "returned"
    /\ ~lk[2].out.rec[1].storeClosed
    /\ lk[2].out.rec[1].product.title = S_B
    /\ lk[2].f["scan"].res.data = S_Product

----------------------------------------------------------------------------
(* lookupMerged and the fetches it leaves behind.  Promise.all rejects as  *)
(* soon as one of its promises does; the other fetches are promises of     *)
(* their own, created with no abort signal, and go on.  late keeps the     *)
(* fetches whose response arrived when their lookup had already returned   *)
(* or failed.                                                              *)

\* a lookupMerged that aborts the fetches still in flight when it fails:
\* their responses are dropped and nothing is stored
RespondSiblingAborted(i, name, resp) ==
    /\ lk[i].f[name].res.st = "inflight"
    /\ \E r \in {IF lk[i].st = "running"
                 THEN FetchResponse(FnOf(name), UrlOf(lk[i].args, name), resp, cache, now)
                 ELSE [cache |-> cache, res |-> Rejected(FetchFailed)]} :
       \E f \in {[lk[i].f EXCEPT ![name].res = r.res, ![name].got = <<Got(resp)>>]} :
       \E p \in {PromiseAll(lk[i].args, f, lk[i].st, lk[i].out, name)} :
          /\ cache' = r.cache
          /\ lk' = [lk EXCEPT ![i] = [args |-> lk[i].args, f |-> f,
                                      st |-> p.st, out |-> p.out]]
    /\ late' = IF lk[i].st = "running" THEN late ELSE late \cup {<<i, name>>}
    /\ UNCHANGED <<now, nTicks, requests, slots, nCalls, nLookups, hist, nextKey,
                   qtyIn, qtyOut, mIn, mOut, http, stalled,
                   upstream, storeHoursCache, lastGet>>

\* the upstream answers one of the fetches of lookup i, whether the lookup
\* is still waiting for it or not
RespondSibling(i, name, resp) ==
    /\ lk[i].f[name].res.st = "inflight"
    /\ \E r \in {FetchResponse(FnOf(name), UrlOf(lk[i].args, name), resp, cache, now)} :
       \E f \in {[lk[i].f EXCEPT ![name].res = r.res, ![name].got = <<Got(resp)>>]} :
       \E p \in {PromiseAll(lk[i].args, f, lk[i].st, lk[i].out, name)} :
          /\ cache' = r.cache
          /\ lk' = [lk EXCEPT ![i] = [args |-> lk[i].args, f |-> f,
                                      st |-> p.st, out |-> p.out]]
    /\ late' = IF lk[i].st = "running" THEN late ELSE late \cup {<<i, name>>}
    /\ UNCHANGED <<now, nTicks, requests, slots, nCalls, nLookups, hist, nextKey,
                   qtyIn, qtyOut, mIn, mOut, http, stalled,
                   upstream, storeHoursCache, lastGet>>

SiblingResponses ==
    \E i \in 1..Len(lk), name \in FetchNames :
        \E resp \in ResponsesOf(name) : RespondSibling(i, name, resp)

NextSiblings == Lookups \/ SiblingResponses

SpecSiblings == Init /\ [][NextSiblings]_vars

\* the fetch called name of lookup i settles in this step
SettlesNow(i, name) ==
    /\ i \in 1..Len(lk)
    /\ Len(lk') = Len(lk)
    /\ lk[i].f[name].res.st = "inflight"
    /\ lk'[i].f[name].res.st # "inflight"

\* the fetch got a 2xx response (all of those the lookups of this
\* specification get have a JSON body that is not null)
Got2xx(slot) == GotResponse(slot) /\ Is2xx(slot.got[1].status)

\* C28: when lookupMerged has failed because one of its strict fetches was
\* rejected, the fetches it left in flight stay in flight until their own
\* response arrives; the response is handled as ever: a 2xx one is decoded
\* and stored in the cache under the fetch's key with a fresh TTL; and the
\* outcome of the failed lookup stays what it was.
C28_SiblingsOfFailedLookupStillStore ==
    [][\A i \in 1..Len(lk), name \in FetchNames :
          /\ (lk[i].st = "failed" /\ SettlesNow(i, name)) =>
                /\ lk'[i].f[name].got # <<>>
                /\ <<i, name>> \in late'
                /\ lk'[i].st = "failed" /\ lk'[i].out = lk[i].out
                /\ Got2xx(lk'[i].f[name]) =>
                      LET k == KeyIndex(cache', CacheKey(FnOf(name), UrlOf(lk[i].args, name)))
                      IN  /\ IsFulfilled(lk'[i].f[name])
                          /\ k # 0
                          /\ cache'[k].value = lk'[i].f[name].res.data
                          /\ cache'[k].expires = now + CACHE_TTL_MS
          /\ (lk[i].st = "failed" /\ lk[i].f[name].res.st = "inflight"
                /\ i \in 1..Len(lk') /\ ~SettlesNow(i, name)) =>
                lk'[i].f[name] = lk[i].f[name]
      ]_vars

\* the first lookup failed on the 404 of the product details while its scan
\* was in flight; the scan was answered 200 afterwards and stored; the
\* second lookup found it in the cache
C28_Witness ==
    /\ Len(lk) = 2
    /\ lk[1].st = "failed"
    /\ lk[1].out.err.kind = "http" /\ lk[1].out.err.status = 404
    /\ <<1, "scan">> \in late
    /\ lk[1].f["scan"].got = <<Got(R_Scan)>>
    /\ lk[2].f["scan"].hit
    /\ lk[2].f["scan"].res.data = S_Product

----------------------------------------------------------------------------
(* Claims about the upstream requests of a route, checked under SpecHttp *)

\* C27: while the server serves its first /api/lookup request, on a cold
\* cache, it requests no upstream URL more than once: the handler's own CIA
\* fetch does not request again the CIA URL that lookupMerged has fetched.
C27_NoUrlRequestedTwice ==
    (Len(http) = 1 /\ http[1].route = "api") =>
        \A u \in DOMAIN requests : requests[u] <= 1

----------------------------------------------------------------------------
(* Claims about hits on stored values, checked under SpecFetch *)

\* C29: whatever value a fetch function has stored with cacheSet, the next
\* call of that function for the same URL within the TTL is a cache hit: it
\* returns the stored value and issues no upstream request, also when the
\* value is 0, false, "" or null.
C29_EveryStoredValueIsHit ==
    [][CallStep =>
          LET k == KeyIndex(cache, CacheKey(NewCall.fn, NewCall.url)) IN
             (k # 0 /\ now <= cache[k].expires) =>
                 /\ NewCall.hit
                 /\ NewCall.res.data = cache[k].value
                 /\ requests' = requests]_vars

----------------------------------------------------------------------------
(* Claims about the scan outcome behind a record, checked under SpecMerge *)

\* C30: a record that lookupMerged returns with storeClosed = false was
\* built from a scan outcome with a 2xx status and data that was decoded
\* and is not null; a scan response whose body could not be decoded never
\* ends as a record of an open store with null store fields.
C30_OpenRecordHasScanData ==
    (Returned /\ ~Rec.storeClosed) =>
        /\ ScanOutcome.ok
        /\ Is2xx(ScanOutcome.status)
        /\ ScanOutcome.data # NullDoc

=============================================================================
